---- MODULE Spec2Model ----
(***************************************************************************)
(* Reverse-mode differentiation of Halide pipelines (src/src/Derivative.cpp)*)
(* as a state machine: the dependency sorter, the bounds inferencer, the   *)
(* expression sorter and the reverse accumulation visitor, run by the      *)
(* entry point propagate_adjoints on a bounded family of pipelines.        *)
(***************************************************************************)
EXTENDS Integers, Sequences, FiniteSets, TLC

(***************************************************************************)
(* Bounds of the model.                                                    *)
(***************************************************************************)
\* largest constant offset of a stencil read (g(x + k), k in -1..MaxOffset)
MaxOffset == 2
\* largest extent of a dimension of the output's reduction domain
MaxExtent == 2
\* largest minimum of a dimension of the output's reduction domain
MaxRMin == 1

(***************************************************************************)
(* Expressions.  A value-level expression node lives in a pipeline's arena *)
(* (p.nodes) and is named by its index there: the index is the node's      *)
(* identity (the BaseExprNode pointer).  Index expressions of calls to     *)
(* Halide functions and images, and the adjoint expressions the visitor    *)
(* builds, are trees.                                                      *)
(***************************************************************************)
T(t, k, name, v, rd, ctype) ==
    [t |-> t, k |-> k, name |-> name, v |-> v, rd |-> rd, ctype |-> ctype]

IntImm(v) == T("IntImm", <<>>, "", v, <<>>, "")

FloatImm(v) == T("FloatImm", <<>>, "", v, <<>>, "")

Var(name) == T("Variable", <<>>, name, 0, <<>>, "")

\* the i-th variable of the reduction domain rd
RVar(rd, i) == T("Variable", <<>>, rd[i].var, 0, rd, "")

Bin(t, a, b) == T(t, <<a, b>>, "", 0, <<>>, "")

CallT(ctype, name, args) == T("Call", args, name, 0, <<>>, ctype)

\* a call to the adjoint function object id of the visitor's heap
AdjCall(id, args) == T("Call", args, "", id, <<>>, "Adjoint")

LetT(name, value, body) == T("Let", <<value, body>>, name, 0, <<>>, "")

\* x + k as the front end writes it: x, x + k or x - k
Off(x, k) ==
    IF k = 0 THEN Var(x)
    ELSE IF k > 0 THEN Bin("Add", Var(x), IntImm(k))
    ELSE Bin("Sub", Var(x), IntImm(-k))

\* clamp(x, lo, hi) == max(min(x, hi), lo)
Clamp(e, lo, hi) == Bin("Max", Bin("Min", e, IntImm(hi)), IntImm(lo))

\* RDom r(min, extent, ...): one ReductionVariable per dimension
RDom1(m0, e0) == <<[var |-> "r$x", min |-> m0, extent |-> e0]>>

RDom2(m0, e0, m1, e1) ==
    <<[var |-> "r$x", min |-> m0, extent |-> e0],
      [var |-> "r$y", min |-> m1, extent |-> e1]>>

(***************************************************************************)
(* Arena nodes.                                                            *)
(***************************************************************************)
N(t, k) ==
    [t |-> t, k |-> k, name |-> "", v |-> 0, rd |-> <<>>, ctype |-> "",
     args |-> <<>>]

\* a call to a Halide function or to an image: its index expressions are trees
NCall(ctype, name, args) ==
    [t |-> "Call", k |-> <<>>, name |-> name, v |-> 0, rd |-> <<>>,
     ctype |-> ctype, args |-> args]

\* a call to an intrinsic: its arguments are nodes of the arena
NExtern(name, k) ==
    [t |-> "Call", k |-> k, name |-> name, v |-> 0, rd |-> <<>>,
     ctype |-> "PureExtern", args |-> <<>>]

NFloat(v) ==
    [t |-> "FloatImm", k |-> <<>>, name |-> "", v |-> v, rd |-> <<>>,
     ctype |-> "", args |-> <<>>]

NVar(name) ==
    [t |-> "Variable", k |-> <<>>, name |-> name, v |-> 0, rd |-> <<>>,
     ctype |-> "", args |-> <<>>]

NLet(name, value, body) ==
    [t |-> "Let", k |-> <<value, body>>, name |-> name, v |-> 0, rd |-> <<>>,
     ctype |-> "", args |-> <<>>]

(***************************************************************************)
(* Functions.  stages[1] is the pure definition (update_id = -1) and       *)
(* stages[u + 2] the update definition u.                                  *)
(***************************************************************************)
Func(name, args, stages) == [name |-> name, args |-> args, stages |-> stages]

num_update_definitions(f) == Len(f.stages) - 1

\* func.value() for update_id = -1, func.update_value(update_id) otherwise
StageValue(f, update_id) == f.stages[update_id + 2]

FuncKey(name, update_id) == <<name, update_id>>

RECURSIVE ToTree(_, _)
\* the expression rooted at node n, as a tree
ToTree(p, n) ==
    LET nd == p.nodes[n] IN
    IF nd.t = "Call" /\ nd.ctype \in {"Halide", "Image"}
    THEN CallT(nd.ctype, nd.name, nd.args)
    ELSE T(nd.t, [i \in 1..Len(nd.k) |-> ToTree(p, nd.k[i])], nd.name, nd.v,
           nd.rd, nd.ctype)

(***************************************************************************)
(* FunctionSorter: the functions reachable from an expression.             *)
(***************************************************************************)
FunctionSorter_new == [visited |-> {}, functions |-> <<>>, traversed_functions |-> {}]

RECURSIVE FS_accept(_, _, _)
RECURSIVE FS_include(_, _, _)
RECURSIVE FS_includeAll(_, _, _, _)
RECURSIVE FS_tree(_, _, _)
RECURSIVE FS_treeAll(_, _, _, _)
RECURSIVE FS_sortFunc(_, _, _)
RECURSIVE FS_stages(_, _, _, _)

\* FunctionSorter::visit(const Call *) on a call to a Halide function
FS_visitHalideCall(p, name, fs) ==
    IF name \in fs.traversed_functions THEN fs ELSE FS_sortFunc(p, name, fs)

\* an index expression (no node identity is shared between index trees)
FS_tree(p, e, fs) ==
    IF e.t = "Call" /\ e.ctype = "Halide"
    THEN FS_visitHalideCall(p, e.name, fs)
    ELSE FS_treeAll(p, e.k, 1, fs)

FS_treeAll(p, es, i, fs) ==
    IF i > Len(es) THEN fs ELSE FS_treeAll(p, es, i + 1, FS_tree(p, es[i], fs))

\* e.accept(this)
FS_accept(p, n, fs) ==
    LET nd == p.nodes[n] IN
    IF nd.t = "Call" /\ nd.ctype = "Halide"
    THEN FS_visitHalideCall(p, nd.name, fs)
    ELSE FS_treeAll(p, nd.args, 1, FS_includeAll(p, nd.k, 1, fs))

\* IRGraphVisitor::include
FS_include(p, n, fs) ==
    IF n \in fs.visited THEN fs
    ELSE FS_accept(p, n, [fs EXCEPT !.visited = @ \cup {n}])

FS_includeAll(p, ns, i, fs) ==
    IF i > Len(ns) THEN fs
    ELSE FS_includeAll(p, ns, i + 1, FS_include(p, ns[i], fs))

\* FunctionSorter::sort(const Func &)
FS_sortFunc(p, name, fs) ==
    LET f == p.funcs[name]
        fs1 == [fs EXCEPT !.traversed_functions = @ \cup {name},
                          !.functions = Append(@, name)]
    IN FS_stages(p, f, num_update_definitions(f) - 1, fs1)

\* the loop of sort(const Func &): from the last update to the pure definition
FS_stages(p, f, update_id, fs) ==
    IF update_id < -1 THEN fs
    ELSE FS_stages(p, f, update_id - 1,
                   FS_accept(p, StageValue(f, update_id), fs))

\* FunctionSorter::sort(const Expr &)
FS_sortExpr(p, n, fs) == FS_accept(p, n, [fs EXCEPT !.visited = {}])

(***************************************************************************)
(* Bounds inference.                                                       *)
(***************************************************************************)
MinOf(a, b) == IF a <= b THEN a ELSE b

MaxOf(a, b) == IF a >= b THEN a ELSE b

\* the (min, max) pair of one argument, or why there is none
MinMax(st, first, second) == [st |-> st, first |-> first, second |-> second]

RECURSIVE get_min_max_bounds(_, _, _, _)
\* get_min_max_bounds without the internal_error of line 85: a node type it does
\* not handle gets the bound (0, 0)
get_min_max_bounds_no_error(expr, current_args, current_bounds, index) ==
    IF expr.t \in {"Add", "Sub", "Max", "Min"} THEN
        LET a_bounds == get_min_max_bounds(expr.k[1], current_args, current_bounds, index)
            b_bounds == get_min_max_bounds(expr.k[2], current_args, current_bounds, index)
        IN  IF expr.t = "Add" THEN
                MinMax("ok", a_bounds.first + b_bounds.first,
                             a_bounds.second + b_bounds.second)
            ELSE IF expr.t = "Sub" THEN
                MinMax("ok", a_bounds.first - b_bounds.second,
                             a_bounds.second - b_bounds.first)
            ELSE IF expr.t = "Max" THEN
                MinMax("ok", MaxOf(a_bounds.first, b_bounds.first),
                             MaxOf(a_bounds.second, b_bounds.second))
            ELSE
                MinMax("ok", MinOf(a_bounds.first, b_bounds.first),
                             MinOf(a_bounds.second, b_bounds.second))
    ELSE IF expr.t = "Variable" /\ expr.rd # <<>> /\ index + 1 <= Len(expr.rd) THEN
        MinMax("ok", expr.rd[index + 1].min,
                     expr.rd[index + 1].min + expr.rd[index + 1].extent - 1)
    ELSE IF expr.t = "Variable" /\ expr.rd = <<>>
            /\ \E i \in 1..Len(current_bounds) : current_args[i] = expr.name THEN
        LET i == CHOOSE j \in 1..Len(current_bounds) : current_args[j] = expr.name
        IN  MinMax("ok", current_bounds[i].min, current_bounds[i].extent)
    ELSE IF expr.t = "IntImm" THEN MinMax("ok", expr.v, expr.v)
    ELSE MinMax("ok", 0, 0)

\* st is "ok", "unsupported" (the internal_error of line 85), "undefined" (the
\* enclosing stage has no bound for the variable) or "out_of_range" (the index
\* is past the end of the reduction domain's vector)
get_min_max_bounds(expr, current_args, current_bounds, index) ==
    IF expr.t \in {"Add", "Sub", "Max", "Min"} THEN
        LET a_bounds == get_min_max_bounds(expr.k[1], current_args, current_bounds, index)
            b_bounds == get_min_max_bounds(expr.k[2], current_args, current_bounds, index)
        IN  IF a_bounds.st # "ok" THEN a_bounds
            ELSE IF b_bounds.st # "ok" THEN b_bounds
            ELSE IF expr.t = "Add" THEN
                MinMax("ok", a_bounds.first + b_bounds.first,
                             a_bounds.second + b_bounds.second)
            ELSE IF expr.t = "Sub" THEN
                MinMax("ok", a_bounds.first - b_bounds.second,
                             a_bounds.second - b_bounds.first)
            ELSE IF expr.t = "Max" THEN
                MinMax("ok", MaxOf(a_bounds.first, b_bounds.first),
                             MaxOf(a_bounds.second, b_bounds.second))
            ELSE
                MinMax("ok", MinOf(a_bounds.first, b_bounds.first),
                             MinOf(a_bounds.second, b_bounds.second))
    ELSE IF expr.t = "Variable" THEN
        IF expr.rd # <<>> THEN
            IF index + 1 > Len(expr.rd) THEN MinMax("out_of_range", 0, 0)
            ELSE LET rvar == expr.rd[index + 1]
                 IN  MinMax("ok", rvar.min, rvar.min + rvar.extent - 1)
        ELSE
            LET found == {i \in 1..Len(current_args) : current_args[i] = expr.name}
            IN  IF found = {} THEN MinMax("unsupported", 0, 0)
                ELSE LET i == CHOOSE j \in found : \A l \in found : j <= l
                     IN  IF i > Len(current_bounds) THEN MinMax("undefined", 0, 0)
                         ELSE MinMax("ok", current_bounds[i].min,
                                           current_bounds[i].extent)
    ELSE IF expr.t = "IntImm" THEN MinMax("ok", expr.v, expr.v)
    ELSE MinMax("unsupported", 0, 0)

merge_bounds(bounds0, bounds1) ==
    [first |-> MinOf(bounds0.first, bounds1.first),
     second |-> MaxOf(bounds0.second, bounds1.second)]

\* RDom(const std::vector<std::pair<Expr, Expr>> &): pairs read as (min, extent)
RDomOfPairs(pairs) ==
    [i \in 1..Len(pairs) |-> [min |-> pairs[i].first, extent |-> pairs[i].second]]

\* a BoundsInferencer object before its first use
BoundsInferencer_new ==
    [func_bounds |-> <<>>, recursion_depth |-> 0,
     current_func_key |-> FuncKey("", -1), current_args |-> <<>>,
     current_bounds |-> <<>>, err |-> "none"]

RECURSIVE BI_accept(_, _, _)
RECURSIVE BI_acceptAll(_, _, _, _)
RECURSIVE BI_tree(_, _, _)
RECURSIVE BI_treeAll(_, _, _, _)
RECURSIVE BI_argBounds(_, _, _, _)
RECURSIVE BI_inferenceFunc(_, _, _)
RECURSIVE BI_stages(_, _, _, _)

\* lines 271-276: the (min, max) of every argument, in order, until one fails
BI_argBounds(args, i, bi, acc) ==
    IF i > Len(args) THEN [st |-> "ok", bounds |-> acc]
    ELSE LET mm == get_min_max_bounds(args[i], bi.current_args,
                                      bi.current_bounds, i - 1)
         IN  IF mm.st # "ok" THEN [st |-> mm.st, bounds |-> acc]
             ELSE BI_argBounds(args, i + 1, bi,
                               Append(acc, [first |-> mm.first, second |-> mm.second]))

\* BI_targetKey without the self-reference case: every call writes to the last
\* stage of the function it calls
BI_targetKey_last_stage(p, name, current_func_key) ==
    FuncKey(name, num_update_definitions(p.funcs[name]) - 1)

\* lines 279-281: the stage a call writes its bound to
BI_targetKey(p, name, current_func_key) ==
    IF current_func_key[1] = name
    THEN FuncKey(name, current_func_key[2] - 1)
    ELSE FuncKey(name, num_update_definitions(p.funcs[name]) - 1)

\* BoundsInferencer::visit(const Call *) on a call to a Halide function
BI_visitHalideCall(p, name, args, bi) ==
    LET ab == BI_argBounds(args, 1, bi, <<>>) IN
    IF ab.st # "ok" THEN [bi EXCEPT !.err = ab.st]
    ELSE
        LET key == BI_targetKey(p, name, bi.current_func_key)
            arg_bounds ==
                IF key \in DOMAIN bi.func_bounds
                THEN LET prev_bounds == bi.func_bounds[key]
                     IN  IF Len(prev_bounds) # Len(ab.bounds) THEN <<>>
                         ELSE [i \in 1..Len(ab.bounds) |->
                                  merge_bounds(prev_bounds[i], ab.bounds[i])]
                ELSE ab.bounds
            sizes_differ == key \in DOMAIN bi.func_bounds
                            /\ Len(bi.func_bounds[key]) # Len(ab.bounds)
            bi1 == [bi EXCEPT !.func_bounds = (key :> arg_bounds) @@ @]
        IN  IF sizes_differ THEN [bi EXCEPT !.err = "assert_sizes"]
            ELSE IF bi.current_func_key[1] # name
            THEN LET bi2 == BI_inferenceFunc(
                                p, name, [bi1 EXCEPT !.recursion_depth = @ + 1])
                 IN  IF bi2.err # "none" THEN bi2
                     ELSE [bi2 EXCEPT !.recursion_depth = @ - 1]
            ELSE bi1

\* an index expression of a call that is not a call to a Halide function
BI_tree(p, e, bi) ==
    IF bi.err # "none" THEN bi
    ELSE IF e.t = "Call" /\ e.ctype = "Halide"
    THEN BI_visitHalideCall(p, e.name, e.k, bi)
    ELSE BI_treeAll(p, e.k, 1, bi)

BI_treeAll(p, es, i, bi) ==
    IF i > Len(es) \/ bi.err # "none" THEN bi
    ELSE BI_treeAll(p, es, i + 1, BI_tree(p, es[i], bi))

\* e.accept(this): an IRVisitor, so a shared node is walked once per use
BI_accept(p, n, bi) ==
    LET nd == p.nodes[n] IN
    IF bi.err # "none" THEN bi
    ELSE IF nd.t = "Call" /\ nd.ctype = "Halide"
    THEN BI_visitHalideCall(p, nd.name, nd.args, bi)
    ELSE BI_treeAll(p, nd.args, 1, BI_acceptAll(p, nd.k, 1, bi))

BI_acceptAll(p, ns, i, bi) ==
    IF i > Len(ns) \/ bi.err # "none" THEN bi
    ELSE BI_acceptAll(p, ns, i + 1, BI_accept(p, ns[i], bi))

\* the loop of inference(const Func &)
BI_stages(p, f, update_id, bi) ==
    IF update_id < -1 \/ bi.err # "none" THEN bi
    ELSE
        LET key == FuncKey(f.name, update_id)
            \* func_bounds[current_func_key] inserts an empty entry for a new key
            fb == IF key \in DOMAIN bi.func_bounds THEN bi.func_bounds
                  ELSE (key :> <<>>) @@ bi.func_bounds
            bi1 == [bi EXCEPT !.func_bounds = fb,
                              !.current_func_key = key,
                              !.current_bounds = RDomOfPairs(fb[key]),
                              !.current_args = f.args]
        IN  BI_stages(p, f, update_id - 1,
                      BI_accept(p, StageValue(f, update_id), bi1))

\* BoundsInferencer::inference(const Func &)
BI_inferenceFunc(p, name, bi) ==
    LET f == p.funcs[name]
        bi1 == BI_stages(p, f, num_update_definitions(f) - 1, bi)
    IN  IF bi1.err # "none" THEN bi1
        ELSE [bi1 EXCEPT !.current_func_key = bi.current_func_key,
                         !.current_args = bi.current_args,
                         !.current_bounds = bi.current_bounds]

\* inference(const Expr &) without the initialization of lines 235-239
BI_inference_no_reset(p, n, bi) ==
    BI_accept(p, n, [bi EXCEPT !.err = "none"])

\* BoundsInferencer::inference(const Expr &)
BI_inference(p, n, bi) ==
    BI_accept(p, n, [bi EXCEPT !.func_bounds = <<>>,
                               !.recursion_depth = 0,
                               !.current_func_key = FuncKey("", -1),
                               !.current_args = <<>>,
                               !.current_bounds = <<>>,
                               !.err = "none"])

(***************************************************************************)
(* ExpressionSorter: the nodes of one expression, operands first.          *)
(***************************************************************************)
RECURSIVE ES_accept(_, _, _)
RECURSIVE ES_include(_, _, _)
RECURSIVE ES_includeAll(_, _, _, _)

\* ES_accept without the early return of visit(const Call *): the arguments
\* of every call are included
ES_accept_through_calls(p, n, es) == ES_includeAll(p, p.nodes[n].k, 1, es)

\* e.accept(this): ExpressionSorter::visit(const Call *) for a call, and
\* IRGraphVisitor's visit (include every operand) for any other node
ES_accept(p, n, es) ==
    LET nd == p.nodes[n] IN
    IF nd.t = "Call" /\ nd.ctype \in {"Halide", "Image"} THEN es
    ELSE ES_includeAll(p, nd.k, 1, es)

\* ExpressionSorter::include
ES_include(p, n, es) ==
    IF n \in es.visited THEN es
    ELSE LET es1 == ES_accept(p, n, [es EXCEPT !.visited = @ \cup {n}])
         IN  [es1 EXCEPT !.expr_list = Append(@, n)]

ES_includeAll(p, ns, i, es) ==
    IF i > Len(ns) THEN es
    ELSE ES_includeAll(p, ns, i + 1, ES_include(p, ns[i], es))

\* ExpressionSorter::sort followed by get_expr_list
ES_sort(p, n) ==
    Append(ES_accept(p, n, [visited |-> {}, expr_list |-> <<>>]).expr_list, n)

(***************************************************************************)
(* Helpers of the host library used by the visitor.                        *)
(***************************************************************************)
RECURSIVE VariableFinder_find(_, _)
\* VariableFinder::find: does a variable named var_name occur in expr
VariableFinder_find(expr, var_name) ==
    IF expr.t = "Variable" THEN expr.name = var_name
    ELSE \E i \in 1..Len(expr.k) : VariableFinder_find(expr.k[i], var_name)

RECURSIVE substitute(_, _, _)
\* substitute(name, replacement, expr): every free occurrence of the variable
\* name in expr becomes replacement; a let that rebinds name hides it in its body
substitute(name, replacement, expr) ==
    IF expr.t = "Variable" THEN
        IF expr.name = name THEN replacement ELSE expr
    ELSE IF expr.t = "Let" /\ expr.name = name THEN
        [expr EXCEPT !.k = <<substitute(name, replacement, expr.k[1]), expr.k[2]>>]
    ELSE [expr EXCEPT !.k = [i \in 1..Len(expr.k) |->
                                substitute(name, replacement, expr.k[i])]]

RECURSIVE solve_for(_, _, _)
\* the solver on lhs == rhs for the variable v, where v occurs in lhs: additions
\* and subtractions of v-free terms are moved to the right-hand side; anything
\* else is not solved
solve_for(lhs, v, rhs) ==
    IF lhs.t = "Variable" THEN [fully_solved |-> TRUE, result |-> rhs]
    ELSE IF lhs.t \in {"Add", "Sub"} THEN
        LET in_a == VariableFinder_find(lhs.k[1], v)
            in_b == VariableFinder_find(lhs.k[2], v)
        IN  IF in_a /\ in_b THEN [fully_solved |-> FALSE, result |-> rhs]
            ELSE IF in_a THEN
                solve_for(lhs.k[1], v,
                          Bin(IF lhs.t = "Add" THEN "Sub" ELSE "Add", rhs, lhs.k[2]))
            ELSE IF lhs.t = "Add" THEN
                solve_for(lhs.k[2], v, Bin("Sub", rhs, lhs.k[1]))
            ELSE
                solve_for(lhs.k[2], v, Bin("Sub", lhs.k[1], rhs))
    ELSE [fully_solved |-> FALSE, result |-> rhs]

\* solve_expression(tmp == e, v)
solve_expression(e, v) == solve_for(e, v, Var("tmp"))

\* RDom::operator Expr(): the single variable of a one-dimensional domain
RDomAsExpr(rd) == RVar(rd, 1)

\* the reduction domain built by get_func_bounds for the stage key
BoundsRDom(key, bounds) ==
    [i \in 1..Len(bounds) |->
        [var |-> key[1] \o "." \o ToString(key[2] + 1) \o "$" \o ToString(i - 1),
         min |-> bounds[i].min, extent |-> bounds[i].extent]]

\* rdom_to_vector
rdom_to_vector(rd) ==
    [i \in 1..Len(rd) |-> [min |-> rd[i].min, extent |-> rd[i].extent]]

\* Func objects made by the visitor: a zero-initialised accumulator, or the
\* BoundaryConditions::constant_exterior wrapper of another object; updates are
\* the right-hand sides added by "+="
FuncZero(key, args) ==
    [base |-> "zero", key |-> key, args |-> args, inner |-> 0, bounds |-> <<>>,
     updates |-> <<>>]

constant_exterior(inner, heap, bounds) ==
    [base |-> "constant_exterior", key |-> heap[inner].key,
     args |-> heap[inner].args, inner |-> inner, bounds |-> bounds,
     updates |-> <<>>]

\* BoundsInferencer::get_func_bounds: every (min, max) pair becomes the
\* (min, extent) of a reduction variable
get_func_bounds(bi) ==
    [key \in DOMAIN bi.func_bounds |->
        BoundsRDom(key,
            [i \in 1..Len(bi.func_bounds[key]) |->
                [min |-> bi.func_bounds[key][i].first,
                 extent |-> bi.func_bounds[key][i].second
                            - bi.func_bounds[key][i].first + 1]])]

(***************************************************************************)
(* ReverseAccumulationVisitor.  heap holds the Func objects the handles in *)
(* adjoint_funcs (and the calls in adjoint expressions) point to.          *)
(***************************************************************************)
ReverseAccumulationVisitor_new ==
    [accumulated_adjoints |-> <<>>, adjoint_funcs |-> <<>>,
     let_var_mapping |-> <<>>, func_bounds |-> <<>>,
     current_func_key |-> FuncKey("", -1), current_bounds |-> <<>>,
     heap |-> <<>>, err |-> "none"]

\* ReverseAccumulationVisitor::accumulate
accumulate(rv, stub, adjoint) ==
    IF stub \notin DOMAIN rv.accumulated_adjoints
    THEN [rv EXCEPT !.accumulated_adjoints = (stub :> adjoint) @@ @]
    ELSE [rv EXCEPT !.accumulated_adjoints[stub] = Bin("Add", @, adjoint)]

\* -e
Negate(e) == Bin("Sub", FloatImm(0), e)

\* select(c, t, f)
Select(c, tv, fv) == T("Select", <<c, tv, fv>>, "", 0, <<>>, "")

\* the contributions a node with accumulated adjoint `adjoint` hands to its
\* operands, in the order of the accumulate calls of its visit method: a
\* sequence of <<operand node, expression>>
LocalContributions(p, n, adjoint, let_var_mapping) ==
    LET op == p.nodes[n]
        a == op.k[1]
        b == op.k[2]
        ta == ToTree(p, a)
        tb == ToTree(p, b)
    IN  CASE op.t = "Cast" -> << <<a, adjoint>> >>
          [] op.t = "Variable" ->
                IF op.name \in DOMAIN let_var_mapping
                THEN LET value == let_var_mapping[op.name]
                     IN  << <<value, LetT(op.name, ToTree(p, value), adjoint)>> >>
                ELSE <<>>
          [] op.t = "Add" -> << <<a, adjoint>>, <<b, adjoint>> >>
          [] op.t = "Sub" -> << <<a, adjoint>>, <<b, Negate(adjoint)>> >>
          [] op.t = "Mul" ->
                << <<a, Bin("Mul", adjoint, tb)>>, <<b, Bin("Mul", adjoint, ta)>> >>
          [] op.t = "Div" ->
                << <<a, Bin("Div", adjoint, tb)>>,
                   <<b, Bin("Div", Bin("Mul", Negate(adjoint), ta),
                                   Bin("Mul", tb, tb))>> >>
          [] op.t = "Min" ->
                << <<a, Select(Bin("LE", ta, tb), adjoint, FloatImm(0))>>,
                   <<b, Select(Bin("LE", tb, ta), adjoint, FloatImm(0))>> >>
          [] op.t = "Max" ->
                << <<a, Select(Bin("GE", ta, tb), adjoint, FloatImm(0))>>,
                   <<b, Select(Bin("GE", tb, ta), adjoint, FloatImm(0))>> >>
          [] op.t = "Let" -> << <<b, adjoint>> >>
          [] op.t = "Call" /\ op.name = "exp_f32" ->
                [i \in 1..Len(op.k) |->
                    <<op.k[i],
                      Bin("Mul", adjoint,
                          CallT("PureExtern", "exp_f32", <<ToTree(p, op.k[i])>>))>>]
          [] OTHER -> <<>>

RECURSIVE accumulateAll(_, _, _)
accumulateAll(rv, contributions, i) ==
    IF i > Len(contributions) THEN rv
    ELSE accumulateAll(accumulate(rv, contributions[i][1], contributions[i][2]),
                       contributions, i + 1)

\* 2^16: a 32-bit word is kept as two halves
HalfWord == 65536

\* size() - 1 without the wrap: an unsigned subtraction that stops at 0
SizeMinusOneAsInt_saturating(size) == IF size = 0 THEN 0 ELSE size - 1

\* size() - 1 computed in size_t and narrowed to the int of a FuncKey: the value
\* wraps to 2^64 - 1 for size 0, and the narrowing keeps its low 32 bits, read
\* as a two's complement number.  lo and hi are the halves of the low word of
\* size - 1
SizeMinusOneAsInt(size) ==
    LET lo == ((size % HalfWord) - 1) % HalfWord
        borrow == IF size % HalfWord = 0 THEN 1 ELSE 0
        hi == ((size \div HalfWord) - borrow) % HalfWord
    IN  IF hi >= HalfWord \div 2
        THEN (hi - HalfWord) * HalfWord + lo
        ELSE hi * HalfWord + lo

\* RV_targetKey scattering a call from another function into the initial stage
RV_targetKey_initial_stage(p, name, current_func_key) ==
    IF name # current_func_key[1]
    THEN FuncKey(name, -1)
    ELSE FuncKey(name, current_func_key[2] - 1)

\* lines 552-554: the stage whose accumulator a call scatters into
RV_targetKey(p, name, current_func_key) ==
    IF name # current_func_key[1]
    THEN FuncKey(name, SizeMinusOneAsInt(num_update_definitions(p.funcs[name])))
    ELSE FuncKey(name, current_func_key[2] - 1)

RECURSIVE canonicalize(_, _, _, _, _)
\* the loop of lines 561-591 with one change: what == "no_inverse" leaves the
\* callee's variable in the adjoint as it is instead of putting the solved
\* inverse in its place, what == "unchecked" does not test fully_solved
canonicalize_changed(what, op_args, func_args, current_bounds, i, adjoint) ==
    IF i > Len(op_args) THEN [err |-> "none", adjoint |-> adjoint]
    ELSE IF ~VariableFinder_find(op_args[i], func_args[i]) THEN
        LET needs_rdom == VariableFinder_find(adjoint, func_args[i])
            adjoint1 == IF needs_rdom /\ Len(current_bounds) = 1
                        THEN substitute(func_args[i], RDomAsExpr(current_bounds), adjoint)
                        ELSE adjoint
            adjoint2 == IF op_args[i].t = "Variable" /\ op_args[i].rd # <<>>
                        THEN substitute(op_args[i].name, Var(func_args[i]), adjoint1)
                        ELSE adjoint1
        IN  IF needs_rdom /\ Len(current_bounds) # 1
            THEN [err |-> "Can't treat this RDom as an Expr", adjoint |-> adjoint]
            ELSE canonicalize(op_args, func_args, current_bounds, i + 1, adjoint2)
    ELSE
        LET result == solve_expression(op_args[i], func_args[i])
            inv == substitute("tmp", Var(func_args[i]), result.result)
        IN  IF ~result.fully_solved /\ what # "unchecked"
            THEN [err |-> "Can't solve the inverse", adjoint |-> adjoint]
            ELSE canonicalize(op_args, func_args, current_bounds, i + 1,
                              IF what = "no_inverse" THEN adjoint
                              ELSE substitute(func_args[i], inv, adjoint))

canonicalize_no_inverse(op_args, func_args, current_bounds, i, adjoint) ==
    canonicalize_changed("no_inverse", op_args, func_args, current_bounds, i, adjoint)

canonicalize_unchecked(op_args, func_args, current_bounds, i, adjoint) ==
    canonicalize_changed("unchecked", op_args, func_args, current_bounds, i, adjoint)

\* lines 561-591: rewrite the adjoint so that it is indexed by the callee's own
\* variables func_args; err is "none" or the error that stopped the loop
canonicalize(op_args, func_args, current_bounds, i, adjoint) ==
    IF i > Len(op_args) THEN [err |-> "none", adjoint |-> adjoint]
    ELSE IF ~VariableFinder_find(op_args[i], func_args[i]) THEN
        LET needs_rdom == VariableFinder_find(adjoint, func_args[i])
            adjoint1 == IF needs_rdom /\ Len(current_bounds) = 1
                        THEN substitute(func_args[i], RDomAsExpr(current_bounds), adjoint)
                        ELSE adjoint
            adjoint2 == IF op_args[i].t = "Variable" /\ op_args[i].rd # <<>>
                        THEN substitute(op_args[i].name, Var(func_args[i]), adjoint1)
                        ELSE adjoint1
        IN  IF needs_rdom /\ Len(current_bounds) # 1
            THEN [err |-> "Can't treat this RDom as an Expr", adjoint |-> adjoint]
            ELSE canonicalize(op_args, func_args, current_bounds, i + 1, adjoint2)
    ELSE
        LET result == solve_expression(op_args[i], func_args[i])
            inv == substitute("tmp", Var(func_args[i]), result.result)
        IN  IF ~result.fully_solved
            THEN [err |-> "Can't solve the inverse", adjoint |-> adjoint]
            ELSE canonicalize(op_args, func_args, current_bounds, i + 1,
                              substitute(func_args[i], inv, adjoint))

\* lines 536-596: the scatter of a call to a Halide function
scatter(p, op, adjoint, rv) ==
    LET func == p.funcs[op.name]
        key == RV_targetKey(p, op.name, rv.current_func_key)
        \* adjoint_funcs[key] makes a new, undefined Func for a key it lacks
        fresh == key \notin DOMAIN rv.adjoint_funcs
        heap1 == IF fresh THEN Append(rv.heap, FuncZero(key, func.args)) ELSE rv.heap
        funcs1 == IF fresh THEN (key :> Len(heap1)) @@ rv.adjoint_funcs
                  ELSE rv.adjoint_funcs
        func_to_update == funcs1[key]
        c == canonicalize(op.args, func.args, rv.current_bounds, 1, adjoint)
    IN  IF c.err # "none"
        THEN [rv EXCEPT !.heap = heap1, !.adjoint_funcs = funcs1, !.err = c.err]
        ELSE [rv EXCEPT !.adjoint_funcs = funcs1,
                        !.heap = [heap1 EXCEPT ![func_to_update].updates =
                                                   Append(@, c.adjoint)]]

RECURSIVE RV_accept(_, _, _)
RECURSIVE RV_acceptAll(_, _, _, _)
\* it->accept(this): the visit method of the node's type.  A node type the
\* visitor does not override gets IRVisitor's visit, which accepts the operands
RV_accept(p, n, rv) ==
    LET op == p.nodes[n] IN
    IF rv.err # "none" THEN rv
    ELSE IF op.t \in {"Cast", "Variable", "Add", "Sub", "Mul", "Div", "Min",
                      "Max", "Call", "Let"} THEN
        IF n \notin DOMAIN rv.accumulated_adjoints
        THEN [rv EXCEPT !.err = "assert accumulated_adjoints"]
        ELSE
            LET adjoint == rv.accumulated_adjoints[n]
                rv1 == accumulateAll(
                           rv, LocalContributions(p, n, adjoint, rv.let_var_mapping), 1)
            IN  IF op.t = "Let"
                THEN [rv1 EXCEPT !.let_var_mapping = (op.name :> op.k[1]) @@ @]
                ELSE IF op.t = "Call" /\ op.ctype = "Halide"
                THEN scatter(p, op, adjoint, rv1)
                ELSE rv1
    ELSE RV_acceptAll(p, op.k, 1, rv)

RV_acceptAll(p, ns, i, rv) ==
    IF i > Len(ns) \/ rv.err # "none" THEN rv
    ELSE RV_acceptAll(p, ns, i + 1, RV_accept(p, ns[i], rv))

RECURSIVE create_stubs(_, _, _, _)
\* lines 377-384: one zero accumulator per stage of every function of funcs
create_stubs(p, funcs, func_id, rv) ==
    IF func_id > Len(funcs) THEN rv
    ELSE
        LET func == p.funcs[funcs[func_id]]
            n == num_update_definitions(func)
            base == Len(rv.heap)
            heap1 == rv.heap \o [j \in 1..(n + 1) |-> FuncZero(FuncKey(func.name, j - 2), func.args)]
            funcs1 == [key \in DOMAIN rv.adjoint_funcs \cup
                               {FuncKey(func.name, u) : u \in -1..(n - 1)} |->
                          IF key[1] = func.name /\ key[2] \in -1..(n - 1)
                          THEN base + key[2] + 2
                          ELSE rv.adjoint_funcs[key]]
        IN  create_stubs(p, funcs, func_id + 1,
                         [rv EXCEPT !.heap = heap1, !.adjoint_funcs = funcs1])

\* lines 403-428: what is done for one stage before its expressions are walked
begin_stage(p, name, update_id, rv) ==
    LET func == p.funcs[name]
        func_key == FuncKey(name, update_id)
        root == StageValue(func, update_id)
    IN  IF func_key \notin DOMAIN rv.func_bounds
        THEN [rv EXCEPT !.err = "assert func_bounds"]
        ELSE
            LET bounds == rv.func_bounds[func_key]
                wrapped == constant_exterior(rv.adjoint_funcs[func_key], rv.heap,
                                             rdom_to_vector(bounds))
                heap1 == Append(rv.heap, wrapped)
                seed == AdjCall(Len(heap1), [i \in 1..Len(func.args) |-> Var(func.args[i])])
            IN  IF Len(bounds) > Len(func.args)
                THEN [rv EXCEPT !.current_func_key = func_key,
                                !.current_bounds = bounds,
                                !.err = "constant_exterior called with more bounds than dimensions"]
                ELSE [rv EXCEPT !.current_func_key = func_key,
                                !.current_bounds = bounds,
                                !.heap = heap1,
                                !.adjoint_funcs[func_key] = Len(heap1),
                                !.accumulated_adjoints = (root :> seed) @@ @]

\* get_adjoint_funcs returning the accumulator of the last stage of each
\* function instead of that of its initial stage
get_adjoint_funcs_last_stage(rv) ==
    LET names == {key[1] : key \in DOMAIN rv.adjoint_funcs}
        last(name) == CHOOSE u \in {k[2] : k \in {q \in DOMAIN rv.adjoint_funcs : q[1] = name}} :
                          \A k \in DOMAIN rv.adjoint_funcs : k[1] = name => k[2] <= u
    IN  [name \in names |-> rv.adjoint_funcs[FuncKey(name, last(name))]]

\* ReverseAccumulationVisitor::get_adjoint_funcs
get_adjoint_funcs(rv) ==
    LET names == {key[1] : key \in {k \in DOMAIN rv.adjoint_funcs : k[2] = -1}}
    IN  [name \in names |-> rv.adjoint_funcs[FuncKey(name, -1)]]

(***************************************************************************)
(* The value of an expression, of a stage of a pipeline function and of an *)
(* adjoint function at a point (what realize computes), over the integers. *)
(* c is [p |-> pipeline, heap |-> the visitor's Func objects]; self is the *)
(* stage whose definition is being evaluated (a call to the function       *)
(* itself reads the stage before it), FuncKey("", -1) outside one.         *)
(***************************************************************************)
RECURSIVE Eval(_, _, _, _)
RECURSIVE EvalAll(_, _, _, _)
RECURSIVE EvalSum(_, _, _, _, _)
RECURSIVE EvalRange(_, _, _, _, _, _, _)
RECURSIVE FuncVal(_, _, _, _)
RECURSIVE AdjVal(_, _, _)
RECURSIVE UpdatesVal(_, _, _, _)
RECURSIVE FindRDom(_)
RECURSIVE FindRDomAll(_, _)

Bind(env, name, v) == (name :> v) @@ env

ArgsEnv(args, coords) ==
    [nm \in {args[i] : i \in 1..Len(args)} |->
        coords[CHOOSE i \in 1..Len(args) : args[i] = nm]]

\* Buffer<T>::operator(): row-major data, 0 outside the buffer
ImageVal(img, coords) ==
    IF \E i \in 1..Len(coords) : coords[i] < 0 \/ coords[i] >= img.dims[i] THEN 0
    ELSE IF Len(coords) = 1 THEN img.data[coords[1] + 1]
    ELSE img.data[coords[2] * img.dims[1] + coords[1] + 1]

\* the reduction domain of the first reduction variable of e, <<>> if none
FindRDom(e) ==
    IF e.t = "Variable" THEN e.rd ELSE FindRDomAll(e.k, 1)

FindRDomAll(es, i) ==
    IF i > Len(es) THEN <<>>
    ELSE LET rd == FindRDom(es[i])
         IN  IF rd # <<>> THEN rd ELSE FindRDomAll(es, i + 1)

\* an integer stand-in for the value of a one-argument intrinsic
ExternVal(name, a) == IF name = "exp_f32" THEN 2 * a + 1 ELSE a

EvalAll(c, self, es, env) == [i \in 1..Len(es) |-> Eval(c, self, es[i], env)]

Eval(c, self, e, env) ==
    LET a == Eval(c, self, e.k[1], env)
        b == Eval(c, self, e.k[2], env)
    IN  CASE e.t \in {"IntImm", "FloatImm"} -> e.v
          [] e.t = "Variable" -> env[e.name]
          [] e.t = "Cast" -> a
          [] e.t = "Add" -> a + b
          [] e.t = "Sub" -> a - b
          [] e.t = "Mul" -> a * b
          [] e.t = "Div" -> IF b = 0 THEN 0 ELSE a \div b
          [] e.t = "Min" -> MinOf(a, b)
          [] e.t = "Max" -> MaxOf(a, b)
          [] e.t = "LE" -> IF a <= b THEN 1 ELSE 0
          [] e.t = "GE" -> IF a >= b THEN 1 ELSE 0
          [] e.t = "Select" ->
                IF a # 0 THEN b ELSE Eval(c, self, e.k[3], env)
          [] e.t = "Let" -> Eval(c, self, e.k[2], Bind(env, e.name, a))
          [] e.t = "Mod" -> IF b = 0 THEN 0 ELSE a % b
          [] e.t = "Call" /\ e.ctype = "PureExtern" -> ExternVal(e.name, a)
          [] e.t = "Call" /\ e.ctype = "Image" ->
                ImageVal(c.p.images[e.name], EvalAll(c, self, e.k, env))
          [] e.t = "Call" /\ e.ctype = "Halide" ->
                FuncVal(c, e.name,
                        IF e.name = self[1] THEN self[2] - 1
                        ELSE num_update_definitions(c.p.funcs[e.name]) - 1,
                        EvalAll(c, self, e.k, env))
          [] e.t = "Call" /\ e.ctype = "Adjoint" ->
                AdjVal(c, e.v, EvalAll(c, self, e.k, env))

\* the sum of e over the points of the reduction domain rd, from dimension i on
EvalSum(c, e, env, rd, i) ==
    IF i > Len(rd) THEN Eval(c, FuncKey("", -1), e, env)
    ELSE EvalRange(c, e, env, rd, i, rd[i].min, rd[i].min + rd[i].extent - 1)

EvalRange(c, e, env, rd, i, v, last) ==
    IF v > last THEN 0
    ELSE EvalSum(c, e, Bind(env, rd[i].var, v), rd, i + 1)
         + EvalRange(c, e, env, rd, i, v + 1, last)

\* the value of stage `stage` of the pipeline function name at coords
FuncVal(c, name, stage, coords) ==
    LET f == c.p.funcs[name]
    IN  Eval(c, FuncKey(name, stage), ToTree(c.p, StageValue(f, stage)),
             ArgsEnv(f.args, coords))

\* what the update definitions i.. of a Func object add at env
UpdatesVal(c, updates, i, env) ==
    IF i > Len(updates) THEN 0
    ELSE EvalSum(c, updates[i], env, FindRDom(updates[i]), 1)
         + UpdatesVal(c, updates, i + 1, env)

InBounds(bounds, coords) ==
    \A i \in 1..Len(bounds) :
        /\ coords[i] >= bounds[i].min
        /\ coords[i] < bounds[i].min + bounds[i].extent

\* the value of the Func object id of the heap at coords
AdjVal(c, id, coords) ==
    LET f == c.heap[id]
        pure == IF f.base = "zero" THEN 0
                ELSE IF InBounds(f.bounds, coords) THEN AdjVal(c, f.inner, coords)
                ELSE 0
    IN  pure + UpdatesVal(c, f.updates, 1, ArgsEnv(f.args, coords))

(***************************************************************************)
(* The pipelines the entry point is run on.                                *)
(***************************************************************************)
\* Buffer<float> input(input_data, 2) of test_simple_1d_blur and test_update
Image1D == [dims |-> <<2>>, data |-> <<1, 2>>]

\* a 3 x 3 cut of the image of test_simple_2d_blur
Image2D == [dims |-> <<3, 3>>, data |-> <<0, 1, 0, 1, 1, 1, 0, 1, 0>>]

Offsets == -1..MaxOffset

RMins == 0..MaxRMin

Extents == 1..MaxExtent

\* test_simple_1d_blur: clamped(x) = input(clamp(x, 0, 1));
\* blur(x) = clamped(x + k1) + clamped(x + k2); loss = blur(r.x) * blur(r.x),
\* the two operands of the product one node (shared) or two
Blur1D(k1, k2, m, e, shared) ==
    LET r == RDom1(m, e) IN
    [kind |-> "blur1d",
     par |-> [k1 |-> k1, k2 |-> k2, m |-> m, e |-> e, shared |-> shared],
     funcs |-> [clamped |-> Func("clamped", <<"x">>, <<1>>),
                blur |-> Func("blur", <<"x">>, <<4>>)],
     nodes |-> << NCall("Image", "input", <<Clamp(Var("x"), 0, 1)>>),
                  NCall("Halide", "clamped", <<Off("x", k1)>>),
                  NCall("Halide", "clamped", <<Off("x", k2)>>),
                  N("Add", <<2, 3>>),
                  NCall("Halide", "blur", <<RVar(r, 1)>>),
                  NCall("Halide", "blur", <<RVar(r, 1)>>),
                  N("Mul", <<5, IF shared THEN 5 ELSE 6>>) >>,
     output |-> 7,
     rdom |-> r,
     images |-> [input |-> Image1D]]

\* test_simple_2d_blur and test_simple_bounds_inference
Blur2D(m0, e0, m1, e1) ==
    LET r == RDom2(m0, e0, m1, e1)
        x == Var("x")
        y == Var("y")
    IN
    [kind |-> "blur2d",
     par |-> [m0 |-> m0, e0 |-> e0, m1 |-> m1, e1 |-> e1],
     funcs |-> [clamped |-> Func("clamped", <<"x", "y">>, <<1>>),
                blur_x |-> Func("blur_x", <<"x", "y">>, <<6>>),
                blur_y |-> Func("blur_y", <<"x", "y">>, <<11>>)],
     nodes |-> << NCall("Image", "input", <<Clamp(x, 0, 2), Clamp(y, 0, 2)>>),
                  NCall("Halide", "clamped", <<x, y>>),
                  NCall("Halide", "clamped", <<Off("x", 1), y>>),
                  NCall("Halide", "clamped", <<Off("x", 2), y>>),
                  N("Add", <<2, 3>>),
                  N("Add", <<5, 4>>),
                  NCall("Halide", "blur_x", <<x, y>>),
                  NCall("Halide", "blur_x", <<x, Off("y", 1)>>),
                  NCall("Halide", "blur_x", <<x, Off("y", 2)>>),
                  N("Add", <<7, 8>>),
                  N("Add", <<10, 9>>),
                  NCall("Halide", "blur_y", <<RVar(r, 1), RVar(r, 2)>>),
                  NCall("Halide", "blur_y", <<RVar(r, 1), RVar(r, 2)>>),
                  N("Mul", <<12, 13>>) >>,
     output |-> 14,
     rdom |-> r,
     images |-> [input |-> Image2D]]

\* test_update and test_simple_bounds_inference_update:
\* blur(x) = clamped(x); blur(x) += clamped(x + k)
Update(k, m, e) ==
    LET r == RDom1(m, e) IN
    [kind |-> "update",
     par |-> [k |-> k, m |-> m, e |-> e],
     funcs |-> [clamped |-> Func("clamped", <<"x">>, <<1>>),
                blur |-> Func("blur", <<"x">>, <<2, 5>>)],
     nodes |-> << NCall("Image", "input", <<Clamp(Var("x"), 0, 1)>>),
                  NCall("Halide", "clamped", <<Var("x")>>),
                  NCall("Halide", "blur", <<Var("x")>>),
                  NCall("Halide", "clamped", <<Off("x", k)>>),
                  N("Add", <<3, 4>>),
                  NCall("Halide", "blur", <<RVar(r, 1)>>),
                  NCall("Halide", "blur", <<RVar(r, 1)>>),
                  N("Mul", <<6, 7>>) >>,
     output |-> 8,
     rdom |-> r,
     images |-> [input |-> Image1D]]

\* an output that calls no Halide function: input(r.x) * input(r.x), or 1.0
NoFunc(m, e, constant) ==
    LET r == RDom1(m, e) IN
    [kind |-> "nofunc",
     par |-> [m |-> m, e |-> e, constant |-> constant],
     funcs |-> <<>>,
     nodes |-> << NCall("Image", "input", <<RVar(r, 1)>>),
                  N("Mul", <<1, 1>>),
                  NFloat(1) >>,
     output |-> IF constant THEN 3 ELSE 2,
     rdom |-> r,
     images |-> [input |-> Image1D]]

\* blur(x) = clamped(inner); loss = blur(outer): the index expressions vary
Index(outer, inner, m, e) ==
    LET r == RDom1(m, e) IN
    [kind |-> "index",
     par |-> [outer |-> outer, inner |-> inner, m |-> m, e |-> e],
     funcs |-> [clamped |-> Func("clamped", <<"x">>, <<1>>),
                blur |-> Func("blur", <<"x">>, <<2>>)],
     nodes |-> << NCall("Image", "input", <<Clamp(Var("x"), 0, 1)>>),
                  NCall("Halide", "clamped", <<inner>>),
                  NCall("Halide", "blur",
                        <<IF outer = "r.x" THEN RVar(r, 1)
                          ELSE IF outer = "r.x*2"
                          THEN Bin("Mul", RVar(r, 1), IntImm(2))
                          ELSE Var("x")>>) >>,
     output |-> 3,
     rdom |-> r,
     images |-> [input |-> Image1D]]

\* index expressions made of the node types get_min_max_bounds handles
SupportedIndices ==
    { Var("x"), Off("x", 1), Bin("Sub", IntImm(1), Var("x")),
      Bin("Max", Var("x"), IntImm(0)), Clamp(Var("x"), 0, 1),
      Bin("Add", Var("x"), Var("x")), Bin("Min", Off("x", 1), IntImm(1)) }

\* index expressions with a node it does not handle
UnsupportedIndices ==
    { Bin("Mul", Var("x"), Var("x")), Bin("Div", Var("x"), IntImm(2)),
      Bin("Add", Var("x"), Bin("Mul", Var("x"), IntImm(2))),
      Var("y"), FloatImm(1), T("Cast", <<Var("x")>>, "", 0, <<>>, ""),
      Off("y", 1) }

\* Expr e = g(x) + 1; f2(x) = e * 3; f1(x) = f2(x) + e * 2; loss = f1(r.x):
\* the node e is an operand in the definitions of two functions
SharedAcross(m, e) ==
    LET r == RDom1(m, e) IN
    [kind |-> "shared_across",
     par |-> [m |-> m, e |-> e],
     funcs |-> [g |-> Func("g", <<"x">>, <<1>>),
                f2 |-> Func("f2", <<"x">>, <<6>>),
                f1 |-> Func("f1", <<"x">>, <<10>>)],
     nodes |-> << NCall("Image", "input", <<Clamp(Var("x"), 0, 1)>>),
                  NCall("Halide", "g", <<Var("x")>>),
                  NFloat(1),
                  N("Add", <<2, 3>>),
                  NFloat(3),
                  N("Mul", <<4, 5>>),
                  NCall("Halide", "f2", <<Var("x")>>),
                  NFloat(2),
                  N("Mul", <<4, 8>>),
                  N("Add", <<7, 9>>),
                  NCall("Halide", "f1", <<RVar(r, 1)>>) >>,
     output |-> 11,
     rdom |-> r,
     images |-> [input |-> Image1D]]

\* g(x) = input(clamp(x, 0, 1)); RDom r(m0, e0, m1, e1); loss = g(r.y)
RVarPos(m0, e0, m1, e1) ==
    LET r == RDom2(m0, e0, m1, e1) IN
    [kind |-> "rvar_pos",
     par |-> [m0 |-> m0, e0 |-> e0, m1 |-> m1, e1 |-> e1],
     funcs |-> [g |-> Func("g", <<"x">>, <<1>>)],
     nodes |-> << NCall("Image", "input", <<Clamp(Var("x"), 0, 1)>>),
                  NCall("Halide", "g", <<RVar(r, 2)>>) >>,
     output |-> 2,
     rdom |-> r,
     images |-> [input |-> Image1D]]

\* c(x) = input(clamp(x, 0, 1)); a(x) = c(x); b(x) = c(x + k);
\* loss = a(r.x) + b(r.x): c is called by two functions
Diamond(k, m, e) ==
    LET r == RDom1(m, e) IN
    [kind |-> "diamond",
     par |-> [k |-> k, m |-> m, e |-> e],
     funcs |-> [c |-> Func("c", <<"x">>, <<1>>),
                a |-> Func("a", <<"x">>, <<2>>),
                b |-> Func("b", <<"x">>, <<3>>)],
     nodes |-> << NCall("Image", "input", <<Clamp(Var("x"), 0, 1)>>),
                  NCall("Halide", "c", <<Var("x")>>),
                  NCall("Halide", "c", <<Off("x", k)>>),
                  NCall("Halide", "a", <<RVar(r, 1)>>),
                  NCall("Halide", "b", <<RVar(r, 1)>>),
                  N("Add", <<4, 5>>) >>,
     output |-> 6,
     rdom |-> r,
     images |-> [input |-> Image1D]]

\* the operations put between g and the product: the exponential, an
\* intrinsic the visitor has no rule for, and a node type it does not override
Operations == {"exp_f32", "sin_f32", "Mod"}

\* g(x) = input(clamp(x, 0, 1)); Expr one = 1.f;
\* f(x) = op(g(x) + one) * one; loss = f(r.x).  The index expression x of the
\* call to the image and of the call to g is also kept as a node (8 and 9):
\* op->args of a call are nodes like any other
Intrinsic(op, m, e) ==
    LET r == RDom1(m, e) IN
    [kind |-> "intrinsic",
     par |-> [op |-> op, m |-> m, e |-> e],
     funcs |-> [g |-> Func("g", <<"x">>, <<1>>),
                f |-> Func("f", <<"x">>, <<6>>)],
     nodes |-> << [NCall("Image", "input", <<Clamp(Var("x"), 0, 1)>>)
                      EXCEPT !.k = <<8>>],
                  [NCall("Halide", "g", <<Var("x")>>) EXCEPT !.k = <<9>>],
                  NFloat(1),
                  N("Add", <<2, 3>>),
                  IF op = "Mod" THEN N("Mod", <<4, 3>>) ELSE NExtern(op, <<4>>),
                  N("Mul", <<5, 3>>),
                  NCall("Halide", "f", <<RVar(r, 1)>>),
                  NVar("x"),
                  NVar("x") >>,
     output |-> 7,
     rdom |-> r,
     images |-> [input |-> Image1D]]

\* f(x) = input(clamp(x, 0, 1)); g(x) = input(clamp(x, 0, 1));
\* h(x) = g(cast<int>(f(x))); loss = h(r.x): f is called only in an argument
\* of the call to g
Nested(m, e) ==
    LET r == RDom1(m, e) IN
    [kind |-> "nested",
     par |-> [m |-> m, e |-> e],
     funcs |-> [f |-> Func("f", <<"x">>, <<1>>),
                g |-> Func("g", <<"x">>, <<2>>),
                h |-> Func("h", <<"x">>, <<3>>)],
     nodes |-> << NCall("Image", "input", <<Clamp(Var("x"), 0, 1)>>),
                  NCall("Image", "input", <<Clamp(Var("x"), 0, 1)>>),
                  NCall("Halide", "g",
                        <<T("Cast", <<CallT("Halide", "f", <<Var("x")>>)>>, "", 0,
                            <<>>, "")>>),
                  NCall("Halide", "h", <<RVar(r, 1)>>) >>,
     output |-> 4,
     rdom |-> r,
     images |-> [input |-> Image1D]]

\* a call whose index is the constant c, not the consumer's variable.
\* One dimension: g(x) = input(clamp(x, 0, 1));
\* f(x) = g(c) * input(clamp(x, 0, 1)); loss = f(r.x).
\* Two dimensions: g(x, y) = input(clamp(x, 0, 2), clamp(y, 0, 2));
\* f(x, y) = g(x, c); loss = f(r.x, r.y)
Missing(dims, c, m, e) ==
    LET r == IF dims = 1 THEN RDom1(m, e) ELSE RDom2(m, e, m, e)
        x == Var("x")
        y == Var("y")
    IN
    [kind |-> "missing",
     par |-> [dims |-> dims, c |-> c, m |-> m, e |-> e],
     funcs |-> IF dims = 1
               THEN [g |-> Func("g", <<"x">>, <<1>>),
                     f |-> Func("f", <<"x">>, <<4>>)]
               ELSE [g |-> Func("g", <<"x", "y">>, <<1>>),
                     f |-> Func("f", <<"x", "y">>, <<2>>)],
     nodes |-> IF dims = 1
               THEN << NCall("Image", "input", <<Clamp(x, 0, 1)>>),
                       NCall("Halide", "g", <<IntImm(c)>>),
                       NCall("Image", "input", <<Clamp(x, 0, 1)>>),
                       N("Mul", <<2, 3>>),
                       NCall("Halide", "f", <<RVar(r, 1)>>) >>
               ELSE << NCall("Image", "input", <<Clamp(x, 0, 2), Clamp(y, 0, 2)>>),
                       NCall("Halide", "g", <<x, IntImm(c)>>),
                       NCall("Halide", "f", <<RVar(r, 1), RVar(r, 2)>>) >>,
     output |-> IF dims = 1 THEN 5 ELSE 3,
     rdom |-> r,
     images |-> [input |-> IF dims = 1 THEN Image1D ELSE Image2D]]

\* clamped(x) = input(clamp(x, 0, 1)); blur(x) = clamped(x) (pure_calls) or
\* blur(x) = input(clamp(x, 0, 1)); then blur(x) = clamped(x + k), an update
\* stage that does not read blur; loss = blur(r.x)
Overwrite(pure_calls, k, m, e) ==
    LET r == RDom1(m, e) IN
    [kind |-> "overwrite",
     par |-> [pure_calls |-> pure_calls, k |-> k, m |-> m, e |-> e],
     funcs |-> [clamped |-> Func("clamped", <<"x">>, <<1>>),
                blur |-> Func("blur", <<"x">>, <<2, 3>>)],
     nodes |-> << NCall("Image", "input", <<Clamp(Var("x"), 0, 1)>>),
                  IF pure_calls THEN NCall("Halide", "clamped", <<Var("x")>>)
                  ELSE NCall("Image", "input", <<Clamp(Var("x"), 0, 1)>>),
                  NCall("Halide", "clamped", <<Off("x", k)>>),
                  NCall("Halide", "blur", <<RVar(r, 1)>>) >>,
     output |-> 4,
     rdom |-> r,
     images |-> [input |-> Image1D]]

Pipelines ==
    {Blur1D(k1, k2, m, e, sh) :
        k1 \in Offsets, k2 \in Offsets, m \in RMins, e \in Extents, sh \in BOOLEAN}
    \cup {Blur2D(m0, e0, m1, e1) :
        m0 \in RMins, e0 \in Extents, m1 \in RMins, e1 \in Extents}
    \cup {Update(k, m, e) : k \in Offsets, m \in RMins, e \in Extents}
    \cup {NoFunc(m, e, c) : m \in RMins, e \in Extents, c \in BOOLEAN}
    \cup {Index(o, i, m, e) :
        o \in {"r.x", "r.x*2", "x"}, i \in SupportedIndices \cup UnsupportedIndices,
        m \in RMins, e \in Extents}
    \cup {SharedAcross(m, e) : m \in RMins, e \in Extents}
    \cup {RVarPos(m0, e0, m1, e1) :
        m0 \in RMins, e0 \in Extents, m1 \in RMins, e1 \in Extents}
    \cup {Diamond(k, m, e) : k \in Offsets, m \in RMins, e \in Extents}
    \cup {Nested(m, e) : m \in RMins, e \in Extents}
    \cup {Overwrite(pc0, k, m, e) :
        pc0 \in BOOLEAN, k \in Offsets, m \in RMins, e \in Extents}
    \cup {Missing(dims, c, m, e) :
        dims \in 1..2, c \in 0..1, m \in RMins, e \in Extents}
    \cup {Intrinsic(op, m, e) : op \in Operations, m \in RMins, e \in Extents}

(***************************************************************************)
(* The entry point propagate_adjoints(output), step by step.               *)
(***************************************************************************)
VARIABLES
    prog,               \* the pipeline whose output is differentiated
    pc,                 \* where the entry point is
    funcs,              \* sorter.get_functions(): names, in the sorter's order
    bounds_inferencer,  \* the BoundsInferencer of line 370
    visitor,            \* the ReverseAccumulationVisitor
    expr_list,          \* the expression list being walked
    it,                 \* the reverse iterator into expr_list (0: rend)
    func_id,            \* the function loop of line 399 (1-based; 0: the output)
    update_id,          \* the stage loop of line 402
    result,             \* what propagate_adjoints returned, once it has
    error,              \* the fatal error raised, "none" if none
    runs                \* inference runs made on bounds_inferencer by a caller

vars == <<prog, pc, funcs, bounds_inferencer, visitor, expr_list, it, func_id,
          update_id, result, error, runs>>

NoResult == [returned |-> FALSE, adjoints |-> <<>>]

Init ==
    /\ prog \in Pipelines
    /\ pc = "start"
    /\ funcs = <<>>
    /\ bounds_inferencer = BoundsInferencer_new
    /\ visitor = ReverseAccumulationVisitor_new
    /\ expr_list = <<>>
    /\ it = 0
    /\ func_id = 0
    /\ update_id = -1
    /\ result = NoResult
    /\ error = "none"
    /\ runs = <<>>

\* the message of the error the bounds inferencer stopped with
InferenceError(err) ==
    IF err = "unsupported" THEN "Can't infer bounds, Expr type not handled"
    ELSE err

\* the entry point without the early return of lines 365-368
no_functions_never(fs) == FALSE

\* line 365: funcs.size() == 0
no_functions(fs) == Len(fs) = 0

\* lines 611-614
SortFunctions ==
    /\ pc = "start"
    /\ funcs' = FS_sortExpr(prog, prog.output, FunctionSorter_new).functions
    /\ pc' = "sorted"
    /\ UNCHANGED <<prog, bounds_inferencer, visitor, expr_list, it, func_id,
                   update_id, result, error, runs>>

\* lines 365-368 and 621: nothing to propagate to
NoFunctions ==
    /\ pc = "sorted"
    /\ no_functions(funcs)
    /\ result' = [returned |-> TRUE, adjoints |-> get_adjoint_funcs(visitor)]
    /\ pc' = "done"
    /\ UNCHANGED <<prog, funcs, bounds_inferencer, visitor, expr_list, it,
                   func_id, update_id, error, runs>>

\* lines 370-373
InferBounds ==
    /\ pc = "sorted"
    /\ ~no_functions(funcs)
    /\ LET bi == BI_inference(prog, prog.output, BoundsInferencer_new) IN
        /\ bounds_inferencer' = bi
        /\ IF bi.err # "none"
           THEN /\ pc' = "failed"
                /\ error' = InferenceError(bi.err)
                /\ UNCHANGED visitor
           ELSE /\ pc' = "bounds"
                /\ visitor' = [visitor EXCEPT !.func_bounds = get_func_bounds(bi)]
                /\ UNCHANGED error
    /\ UNCHANGED <<prog, funcs, expr_list, it, func_id, update_id, result, runs>>

\* lines 377-384
CreateStubs ==
    /\ pc = "bounds"
    /\ visitor' = create_stubs(prog, funcs, 1, visitor)
    /\ pc' = "stubs"
    /\ UNCHANGED <<prog, funcs, bounds_inferencer, expr_list, it, func_id,
                   update_id, result, error, runs>>

\* lines 387-390
PropagateOutput ==
    /\ pc = "stubs"
    /\ expr_list' = ES_sort(prog, prog.output)
    /\ visitor' = accumulate(visitor, prog.output, FloatImm(1))
    /\ it' = Len(expr_list')
    /\ pc' = "walk"
    /\ UNCHANGED <<prog, funcs, bounds_inferencer, func_id, update_id, result,
                   error, runs>>

\* one iteration of the loops of lines 393-396 and 431-434
AcceptNode ==
    /\ pc = "walk"
    /\ it >= 1
    /\ LET rv == RV_accept(prog, expr_list[it], visitor) IN
        /\ visitor' = rv
        /\ IF rv.err # "none"
           THEN pc' = "failed" /\ error' = rv.err
           ELSE UNCHANGED <<pc, error>>
    /\ it' = it - 1
    /\ UNCHANGED <<prog, funcs, bounds_inferencer, expr_list, func_id,
                   update_id, result, runs>>

\* the stage the loops of lines 399-402 come to next
MoreStages ==
    IF func_id = 0 THEN Len(funcs) > 0
    ELSE update_id > -1 \/ func_id < Len(funcs)

NextFuncId == IF func_id = 0 \/ update_id = -1 THEN func_id + 1 ELSE func_id

NextUpdateId ==
    IF func_id = 0 \/ update_id = -1
    THEN num_update_definitions(prog.funcs[funcs[func_id + 1]]) - 1
    ELSE update_id - 1

\* lines 403-428
BeginStage ==
    /\ pc = "walk"
    /\ it = 0
    /\ MoreStages
    /\ LET name == funcs[NextFuncId]
           rv == begin_stage(prog, name, NextUpdateId, visitor)
       IN
        /\ visitor' = rv
        /\ func_id' = NextFuncId
        /\ update_id' = NextUpdateId
        /\ expr_list' = ES_sort(prog, StageValue(prog.funcs[name], NextUpdateId))
        /\ IF rv.err # "none"
           THEN pc' = "failed" /\ error' = rv.err /\ it' = 0
           ELSE it' = Len(expr_list') /\ UNCHANGED <<pc, error>>
    /\ UNCHANGED <<prog, funcs, bounds_inferencer, result, runs>>

\* line 621
Return ==
    /\ pc = "walk"
    /\ it = 0
    /\ ~MoreStages
    /\ result' = [returned |-> TRUE, adjoints |-> get_adjoint_funcs(visitor)]
    /\ pc' = "done"
    /\ UNCHANGED <<prog, funcs, bounds_inferencer, visitor, expr_list, it,
                   func_id, update_id, error, runs>>

Next ==
    \/ SortFunctions
    \/ NoFunctions
    \/ InferBounds
    \/ CreateStubs
    \/ PropagateOutput
    \/ AcceptNode
    \/ BeginStage
    \/ Return

Spec == Init /\ [][Next]_vars

(***************************************************************************)
(* The entry point as one function of the pipeline: the same steps, run to *)
(* the end.  Used to compare the adjoints of two pipelines.                *)
(***************************************************************************)
RECURSIVE walk(_, _, _, _)
\* the loops of lines 393-396 and 431-434
walk(p, list, i, rv) ==
    IF i < 1 \/ rv.err # "none" THEN rv
    ELSE walk(p, list, i - 1, RV_accept(p, list[i], rv))

RECURSIVE traverse_functions(_, _, _, _, _)
\* the loops of lines 399-436, from stage update_id of function func_id on
traverse_functions(p, fs, fid, uid, rv) ==
    IF fid > Len(fs) \/ rv.err # "none" THEN rv
    ELSE IF uid < -1 THEN
        IF fid + 1 > Len(fs) THEN rv
        ELSE traverse_functions(p, fs, fid + 1,
                 num_update_definitions(p.funcs[fs[fid + 1]]) - 1, rv)
    ELSE
        LET rv1 == begin_stage(p, fs[fid], uid, rv)
            list == ES_sort(p, StageValue(p.funcs[fs[fid]], uid))
        IN  traverse_functions(p, fs, fid, uid - 1, walk(p, list, Len(list), rv1))

\* propagate_adjoints(output): err is "none" and adjoints the returned map, or
\* err is the fatal error and nothing is returned
propagate_adjoints(p) ==
    LET fs == FS_sortExpr(p, p.output, FunctionSorter_new).functions
        bi == BI_inference(p, p.output, BoundsInferencer_new)
        rv0 == [ReverseAccumulationVisitor_new EXCEPT !.func_bounds = get_func_bounds(bi)]
        rv1 == accumulate(create_stubs(p, fs, 1, rv0), p.output, FloatImm(1))
        list == ES_sort(p, p.output)
        rv2 == walk(p, list, Len(list), rv1)
        rv3 == traverse_functions(p, fs, 1,
                   num_update_definitions(p.funcs[fs[1]]) - 1, rv2)
    IN  IF no_functions(fs)
        THEN [err |-> "none", heap |-> <<>>, adjoints |-> <<>>]
        ELSE IF bi.err # "none"
        THEN [err |-> InferenceError(bi.err), heap |-> <<>>, adjoints |-> <<>>]
        ELSE IF rv3.err # "none"
        THEN [err |-> rv3.err, heap |-> <<>>, adjoints |-> <<>>]
        ELSE [err |-> "none", heap |-> rv3.heap, adjoints |-> get_adjoint_funcs(rv3)]

(***************************************************************************)
(* Properties of the returned adjoints.                                    *)
(***************************************************************************)
\* the coordinates the adjoints are compared at: every bound inferred for a
\* pipeline of Pipelines lies inside, with a margin
Coordinates == (0 - MaxOffset - 1)..(MaxRMin + MaxExtent + MaxOffset)

Ctx == [p |-> prog, heap |-> visitor.heap]

\* the value at coords of the adjoint returned for the function name
Adjoint(name, coords) == AdjVal(Ctx, result.adjoints[name], coords)

\* the value at coords of the accumulator of one stage
StageAdjoint(key, coords) == AdjVal(Ctx, visitor.adjoint_funcs[key], coords)

\* the returned adjoint of a consumer, taken as 0 outside its inferred bound
Within(name, coords) ==
    IF InBounds(rdom_to_vector(visitor.func_bounds[FuncKey(name, -1)]), coords)
    THEN Adjoint(name, coords)
    ELSE 0

\* the last stage of a function at coords
Value(name, coords) ==
    FuncVal(Ctx, name, num_update_definitions(prog.funcs[name]) - 1, coords)

\* C1: when g is read by a consumer f at constant offsets, the returned adjoint
\* of g at c is the sum, over the call sites g(x + k), of f's adjoint at c - k,
\* f's adjoint being 0 outside f's inferred bound: for the one-dimensional blur
\* with offsets k1 and k2, for both separable passes of the two-dimensional
\* blur (offsets 0, 1, 2 along y, then along x), and for a single read at x or
\* x + 1
C1_ShiftScatter ==
    pc = "done" =>
        /\ prog.kind = "blur1d" =>
            \A c \in Coordinates :
                Adjoint("clamped", <<c>>) =
                    Within("blur", <<c - prog.par.k1>>)
                    + Within("blur", <<c - prog.par.k2>>)
        /\ prog.kind = "blur2d" =>
            \A cx \in Coordinates, cy \in Coordinates :
                /\ Adjoint("blur_x", <<cx, cy>>) =
                       Within("blur_y", <<cx, cy>>) + Within("blur_y", <<cx, cy - 1>>)
                       + Within("blur_y", <<cx, cy - 2>>)
                /\ Adjoint("clamped", <<cx, cy>>) =
                       Within("blur_x", <<cx, cy>>) + Within("blur_x", <<cx - 1, cy>>)
                       + Within("blur_x", <<cx - 2, cy>>)
        /\ prog.kind = "index" /\ prog.par.inner = Var("x") =>
            \A c \in Coordinates : Adjoint("clamped", <<c>>) = Within("blur", <<c>>)
        /\ prog.kind = "index" /\ prog.par.inner = Off("x", 1) =>
            \A c \in Coordinates : Adjoint("clamped", <<c>>) = Within("blur", <<c - 1>>)

\* test_simple_1d_blur has returned: the adjoint of clamped at 1 is the sum of
\* two nonzero adjoints of blur, at 0 it is the adjoint of blur at 0 alone
C1_Witness ==
    /\ pc = "done"
    /\ prog = Blur1D(0, 1, 0, 2, FALSE)
    /\ Adjoint("blur", <<0>>) # 0
    /\ Adjoint("blur", <<1>>) # 0
    /\ Adjoint("clamped", <<1>>) = Adjoint("blur", <<0>>) + Adjoint("blur", <<1>>)
    /\ Adjoint("clamped", <<0>>) = Adjoint("blur", <<0>>)

\* the values the variables of an accumulated adjoint are bound to when two
\* adjoint expressions are compared
EnvValues == 0..1

Envs == [{"x", "y", "r$x", "r$y"} -> EnvValues]

\* the roots of the expressions walked: their adjoint is a seed
Roots ==
    {prog.output}
    \cup UNION {{prog.funcs[f].stages[i] : i \in 1..Len(prog.funcs[f].stages)} :
                   f \in DOMAIN prog.funcs}

RECURSIVE SumContributions(_, _, _, _)
\* the sum at env of the contributions of the sequence cs from i on that go to
\* the node n
SumContributions(cs, i, n, env) ==
    IF i > Len(cs) THEN 0
    ELSE (IF cs[i][1] = n THEN Eval(Ctx, FuncKey("", -1), cs[i][2], env) ELSE 0)
         + SumContributions(cs, i + 1, n, env)

RECURSIVE SumOverConsumers(_, _, _)
\* the sum at env of what every consumer edge q -> n contributes, each edge
\* once, the consumer q handing on its own accumulated adjoint
SumOverConsumers(qs, n, env) ==
    IF qs = {} THEN 0
    ELSE LET q == CHOOSE x \in qs : TRUE
         IN  SumContributions(
                 LocalContributions(prog, q, visitor.accumulated_adjoints[q],
                                    visitor.let_var_mapping), 1, n, env)
             + SumOverConsumers(qs \ {q}, n, env)

\* C2: with loss = f(r)*f(r), the operands one node or two, the adjoint of f
\* is 2*f at every point of f's inferred domain; and the accumulated adjoint of
\* every node is the sum of the contributions of all its consumer edges, each
\* edge counted exactly once
C2_EachEdgeOnce ==
    pc = "done" =>
        /\ prog.kind \in {"blur1d", "update"} =>
            \A c \in Coordinates :
                InBounds(rdom_to_vector(visitor.func_bounds[FuncKey("blur", -1)]), <<c>>)
                    => Adjoint("blur", <<c>>) = 2 * Value("blur", <<c>>)
        /\ prog.kind = "blur2d" =>
            \A cx \in Coordinates, cy \in Coordinates :
                InBounds(rdom_to_vector(visitor.func_bounds[FuncKey("blur_y", -1)]),
                         <<cx, cy>>)
                    => Adjoint("blur_y", <<cx, cy>>) = 2 * Value("blur_y", <<cx, cy>>)
        /\ \A n \in DOMAIN visitor.accumulated_adjoints \ Roots :
            \A env \in Envs :
                Eval(Ctx, FuncKey("", -1), visitor.accumulated_adjoints[n], env)
                    = SumOverConsumers(DOMAIN visitor.accumulated_adjoints, n, env)

\* C3: for blur(x) = clamped(x); blur(x) += clamped(x + k) the adjoint of
\* clamped is what the read of the initial stage and the read of the update
\* stage route to it, summed; it is the adjoint the single-stage pipeline
\* blur(x) = clamped(x) + clamped(x + k) gives; and the adjoint of blur is
\* 2*blur on blur's inferred domain
C3_TwoStageAccumulation ==
    pc = "done" /\ prog.kind = "update" =>
        LET single == Blur1D(0, prog.par.k, prog.par.m, prog.par.e, FALSE)
            one == propagate_adjoints(single)
            c1 == [p |-> single, heap |-> one.heap]
        IN  /\ one.err = "none"
            /\ \A c \in Coordinates :
                /\ Adjoint("clamped", <<c>>) =
                       StageAdjoint(FuncKey("blur", -1), <<c>>)
                       + StageAdjoint(FuncKey("blur", 0), <<c - prog.par.k>>)
                /\ Adjoint("clamped", <<c>>) = AdjVal(c1, one.adjoints["clamped"], <<c>>)
                /\ InBounds(rdom_to_vector(visitor.func_bounds[FuncKey("blur", -1)]), <<c>>)
                       => /\ Adjoint("blur", <<c>>) = 2 * Value("blur", <<c>>)
                          /\ Adjoint("blur", <<c>>) = AdjVal(c1, one.adjoints["blur"], <<c>>)

\* test_update has returned: clamped gets 6 from the read of the initial stage
\* and 8 from the read of the update stage at x + 1
C3_Witness ==
    /\ pc = "done"
    /\ prog = Update(1, 0, 2)
    /\ StageAdjoint(FuncKey("blur", -1), <<1>>) = 8
    /\ StageAdjoint(FuncKey("blur", 0), <<0>>) = 6
    /\ Adjoint("clamped", <<1>>) = 14

(***************************************************************************)
(* Properties of the inferred bounds.                                      *)
(***************************************************************************)
\* bounds inference has finished and returned a map
InferenceFinished == pc \notin {"start", "sorted"} /\ bounds_inferencer.err = "none"

RECURSIVE Reach(_)
\* the nodes of the body rooted at n
Reach(n) == {n} \cup UNION {Reach(prog.nodes[n].k[i]) : i \in 1..Len(prog.nodes[n].k)}

\* the stages of the functions of the dependency list
StageBodies ==
    UNION {{[key |-> FuncKey(funcs[i], u), args |-> prog.funcs[funcs[i]].args] :
                u \in -1..(num_update_definitions(prog.funcs[funcs[i]]) - 1)} :
            i \in 1..Len(funcs)}

\* the stage a call to the function name made in the stage caller reads
ReadStage(name, caller) ==
    IF caller[1] = name THEN FuncKey(name, caller[2] - 1)
    ELSE FuncKey(name, num_update_definitions(prog.funcs[name]) - 1)

\* the call sites: a call to a Halide function in the output or in a stage
CallSites ==
    {[caller |-> FuncKey("", -1), args |-> <<>>, n |-> n] : n \in Reach(prog.output)}
    \cup UNION {{[caller |-> b.key, args |-> b.args, n |-> n] :
                    n \in Reach(StageValue(prog.funcs[b.key[1]], b.key[2]))} :
                b \in StageBodies}

HalideCallSites ==
    {s \in CallSites : prog.nodes[s.n].t = "Call" /\ prog.nodes[s.n].ctype = "Halide"}

RECURSIVE IntervalImage(_, _, _)
\* the interval an index expression takes when every plain variable ranges
\* over the bound of the enclosing stage (bound[i] for the i-th domain variable)
\* and every reduction variable over its own declared range
IntervalImage(e, args, bound) ==
    LET a == IntervalImage(e.k[1], args, bound)
        b == IntervalImage(e.k[2], args, bound)
    IN  CASE e.t = "IntImm" -> [first |-> e.v, second |-> e.v]
          [] e.t = "Variable" /\ e.rd # <<>> ->
                LET rv == e.rd[CHOOSE i \in 1..Len(e.rd) : e.rd[i].var = e.name]
                IN  [first |-> rv.min, second |-> rv.min + rv.extent - 1]
          [] e.t = "Variable" /\ e.rd = <<>> ->
                bound[CHOOSE i \in 1..Len(args) : args[i] = e.name]
          [] e.t = "Add" -> [first |-> a.first + b.first, second |-> a.second + b.second]
          [] e.t = "Sub" -> [first |-> a.first - b.second, second |-> a.second - b.first]
          [] e.t = "Min" -> [first |-> MinOf(a.first, b.first),
                             second |-> MinOf(a.second, b.second)]
          [] e.t = "Max" -> [first |-> MaxOf(a.first, b.first),
                             second |-> MaxOf(a.second, b.second)]

\* the image of argument i of the call site s under the final bound of the
\* stage the call is in
SiteImage(s, i) ==
    IntervalImage(prog.nodes[s.n].args[i], s.args,
                  IF s.caller[1] = "" THEN <<>>
                  ELSE bounds_inferencer.func_bounds[s.caller])

\* C4: once inference has finished, the [min, max] of every dimension of every
\* (function, stage) read is the union interval, over the call sites that read
\* that stage, of the image of the call's index expression under the calling
\* stage's final bound (a reduction variable of the output ranging over its own
\* declared range); get_func_bounds reports (min, max - min + 1); and in the
\* two-dimensional blur each stencil pass keeps the caller's min, adds 2 to the
\* extent along the stencil and leaves the other dimension alone
C4_UnionOverCallSites ==
    InferenceFinished =>
        /\ \A key \in DOMAIN bounds_inferencer.func_bounds :
            LET sites == {s \in HalideCallSites :
                              ReadStage(prog.nodes[s.n].name, s.caller) = key}
                bound == bounds_inferencer.func_bounds[key]
                reported == rdom_to_vector(visitor.func_bounds[key])
            IN  sites # {} =>
                    \A i \in 1..Len(bound) :
                        /\ \E s \in sites : SiteImage(s, i).first = bound[i].first
                        /\ \A s \in sites : SiteImage(s, i).first >= bound[i].first
                        /\ \E s \in sites : SiteImage(s, i).second = bound[i].second
                        /\ \A s \in sites : SiteImage(s, i).second <= bound[i].second
                        /\ reported[i] = [min |-> bound[i].first,
                                          extent |-> bound[i].second - bound[i].first + 1]
        /\ prog.kind = "blur2d" =>
            LET by == rdom_to_vector(visitor.func_bounds[FuncKey("blur_y", -1)])
                bx == rdom_to_vector(visitor.func_bounds[FuncKey("blur_x", -1)])
                cl == rdom_to_vector(visitor.func_bounds[FuncKey("clamped", -1)])
            IN  /\ bx[1] = by[1]
                /\ bx[2] = [min |-> by[2].min, extent |-> by[2].extent + 2]
                /\ cl[1] = [min |-> bx[1].min, extent |-> bx[1].extent + 2]
                /\ cl[2] = bx[2]

\* C5: in blur(x) = clamped(x); blur(x) += clamped(x + k) read over [m, m + e)
\* the call in the output gives its bound to stage 0 of blur only, the
\* self-reference blur(x) of stage 0 gives stage 0's bound to stage -1, and
\* clamped gets the union of the read at x of stage -1 and the read at x + k
\* of stage 0; a function without update stage gets the bound of the output's
\* call on stage -1; for k = 1 over [0, 2) blur stage 0 and stage -1 have min
\* 0, extent 2 and clamped has min 0, extent 3
C5_PerStageBounds ==
    /\ pc \notin {"start", "sorted"} /\ prog.kind = "update" =>
        LET fb == bounds_inferencer.func_bounds
            k == prog.par.k
            lo == prog.par.m
            hi == prog.par.m + prog.par.e - 1
        IN  /\ bounds_inferencer.err = "none"
            /\ DOMAIN fb = {FuncKey("blur", 0), FuncKey("blur", -1), FuncKey("clamped", -1)}
            /\ fb[FuncKey("blur", 0)] = <<[first |-> lo, second |-> hi]>>
            /\ fb[FuncKey("blur", -1)] = <<[first |-> lo, second |-> hi]>>
            /\ fb[FuncKey("clamped", -1)] =
                   <<[first |-> MinOf(lo, lo + k), second |-> MaxOf(hi, hi + k)]>>
            /\ prog = Update(1, 0, 2) =>
                /\ rdom_to_vector(visitor.func_bounds[FuncKey("blur", 0)])
                       = <<[min |-> 0, extent |-> 2]>>
                /\ rdom_to_vector(visitor.func_bounds[FuncKey("blur", -1)])
                       = <<[min |-> 0, extent |-> 2]>>
                /\ rdom_to_vector(visitor.func_bounds[FuncKey("clamped", -1)])
                       = <<[min |-> 0, extent |-> 3]>>
    /\ pc \notin {"start", "sorted"} /\ prog.kind = "blur1d" =>
        /\ bounds_inferencer.err = "none"
        /\ DOMAIN bounds_inferencer.func_bounds
               = {FuncKey("blur", -1), FuncKey("clamped", -1)}
        /\ bounds_inferencer.func_bounds[FuncKey("blur", -1)] =
               <<[first |-> prog.par.m, second |-> prog.par.m + prog.par.e - 1]>>

\* inference has run on test_simple_bounds_inference_update
C5_Witness ==
    /\ pc = "bounds"
    /\ prog = Update(1, 0, 2)
    /\ bounds_inferencer.func_bounds[FuncKey("blur", -1)] = <<[first |-> 0, second |-> 1]>>
    /\ bounds_inferencer.func_bounds[FuncKey("clamped", -1)] = <<[first |-> 0, second |-> 2]>>

(***************************************************************************)
(* Properties of the outcome of the entry point.                           *)
(***************************************************************************)
RECURSIVE Supported(_, _)
\* an index expression made of add, sub, min, max, integer literals, reduction
\* variables and plain variables that name a domain variable (args) of the
\* enclosing function
Supported(e, args) ==
    CASE e.t \in {"Add", "Sub", "Min", "Max"} ->
            Supported(e.k[1], args) /\ Supported(e.k[2], args)
      [] e.t = "IntImm" -> TRUE
      [] e.t = "Variable" ->
            e.rd # <<>> \/ \E i \in 1..Len(args) : args[i] = e.name
      [] OTHER -> FALSE

\* the call sites with an index expression that is not Supported
UnsupportedSites ==
    {s \in HalideCallSites :
        \E i \in 1..Len(prog.nodes[s.n].args) :
            ~Supported(prog.nodes[s.n].args[i], s.args)}

RECURSIVE Invertible(_, _)
\* e == tmp has one solution for v by moving added and subtracted v-free
\* terms to the other side
Invertible(e, v) ==
    CASE e.t = "Variable" -> e.name = v
      [] e.t \in {"Add", "Sub"} ->
            \/ /\ VariableFinder_find(e.k[1], v)
               /\ ~VariableFinder_find(e.k[2], v)
               /\ Invertible(e.k[1], v)
            \/ /\ VariableFinder_find(e.k[2], v)
               /\ ~VariableFinder_find(e.k[1], v)
               /\ Invertible(e.k[2], v)
      [] OTHER -> FALSE

\* the call sites g(.., e_i, ..) where e_i mentions g's i-th domain variable
\* and is not invertible for it
NonInvertibleSites ==
    {s \in HalideCallSites :
        \E i \in 1..Len(prog.nodes[s.n].args) :
            LET v == prog.funcs[prog.nodes[s.n].name].args[i]
                e == prog.nodes[s.n].args[i]
            IN  VariableFinder_find(e, v) /\ ~Invertible(e, v)}

Terminated == pc \in {"done", "failed"}

\* C7 as stated: when a call has an index expression that is not invertible
\* for the callee's domain variable, f(x*x) included, the entry point ends
\* with the unsolvable-index error and returns no adjoint map
C7_Original ==
    NonInvertibleSites # {} =>
        /\ result = NoResult
        /\ Terminated => pc = "failed" /\ error = "Can't solve the inverse"

\* C7: when a call has an index expression that is not invertible for the
\* callee's domain variable, the entry point ends with a fatal error and
\* returns no adjoint map: the unsolvable-index error when every index
\* expression of the pipeline is of a shape bounds inference supports, the
\* unsupported-shape error of bounds inference, raised first, otherwise (as
\* for f(x*x)); and nothing is scattered for the call that is not solved
C7_NonInvertibleIsFatal ==
    NonInvertibleSites # {} =>
        /\ result = NoResult
        /\ Terminated =>
            /\ pc = "failed"
            /\ error = IF UnsupportedSites = {}
                       THEN "Can't solve the inverse"
                       ELSE "Can't infer bounds, Expr type not handled"
            /\ \A s \in NonInvertibleSites :
                LET key == ReadStage(prog.nodes[s.n].name, s.caller)
                IN  key \in DOMAIN visitor.adjoint_funcs =>
                        visitor.heap[visitor.adjoint_funcs[key]].updates = <<>>

\* blur(x) = clamped(max(x, 0)) has been walked: the solver failed
C7_Witness ==
    /\ pc = "failed"
    /\ prog.kind = "index"
    /\ prog.par.inner = Bin("Max", Var("x"), IntImm(0))
    /\ NonInvertibleSites # {}
    /\ error = "Can't solve the inverse"
    /\ bounds_inferencer.err = "none"

\* C8: when an index expression of a call reached by bounds inference is not of
\* a supported shape, the entry point ends with the unsupported-shape error,
\* inference has no bound for the function called there, no adjoint
\* accumulator has been created or scattered into, and nothing is returned
C8_UnsupportedShapeIsFatal ==
    pc \notin {"start", "sorted"} /\ UnsupportedSites # {} =>
        /\ pc = "failed"
        /\ error = "Can't infer bounds, Expr type not handled"
        /\ bounds_inferencer.err = "unsupported"
        /\ \A s \in UnsupportedSites :
            ReadStage(prog.nodes[s.n].name, s.caller)
                \notin DOMAIN bounds_inferencer.func_bounds
        /\ visitor = ReverseAccumulationVisitor_new
        /\ result = NoResult

\* inference has stopped on blur(x) = clamped(x * x)
C8_Witness ==
    /\ pc = "failed"
    /\ prog.kind = "index"
    /\ prog.par.outer = "r.x"
    /\ prog.par.inner = Bin("Mul", Var("x"), Var("x"))
    /\ FuncKey("blur", -1) \in DOMAIN bounds_inferencer.func_bounds
    /\ error = "Can't infer bounds, Expr type not handled"

\* the output calls no Halide function
NoCalls ==
    \A n \in Reach(prog.output) :
        ~(prog.nodes[n].t = "Call" /\ prog.nodes[n].ctype = "Halide")

\* C9: when the output calls no function the dependency list is empty, the
\* entry point returns an empty map and raises no error, and neither bounds
\* inference nor accumulation runs: no bound is inferred and no accumulator
\* is created
C9_EmptyIsNoOp ==
    NoCalls =>
        /\ pc \in {"start", "sorted", "done"}
        /\ pc # "start" => funcs = <<>>
        /\ error = "none"
        /\ bounds_inferencer = BoundsInferencer_new
        /\ visitor = ReverseAccumulationVisitor_new
        /\ result = IF pc = "done" THEN [returned |-> TRUE, adjoints |-> <<>>]
                    ELSE NoResult

\* the entry point has returned for the output input(r.x) * input(r.x)
C9_Witness ==
    /\ pc = "done"
    /\ prog.kind = "nofunc"
    /\ ~prog.par.constant
    /\ result.returned
    /\ result.adjoints = <<>>

\* the Halide functions called in the bodies rooted at roots
Called(roots) ==
    {prog.nodes[n].name :
        n \in {m \in UNION {Reach(r) : r \in roots} :
                  prog.nodes[m].t = "Call" /\ prog.nodes[m].ctype = "Halide"}}

RECURSIVE Closure(_)
\* names and every function called, directly or not, in a stage of one of them
Closure(names) ==
    LET more == names \cup Called(UNION {{prog.funcs[f].stages[i] :
                                              i \in 1..Len(prog.funcs[f].stages)} :
                                          f \in names})
    IN  IF more = names THEN names ELSE Closure(more)

\* the functions reachable from the output
ReachableNames == Closure(Called({prog.output}))

\* C10: on success the returned map has one entry for each function of the
\* dependency list, which names no function twice, and no other entry; the
\* value under a name is the adjoint held under (name, -1), not the adjoint of
\* a stage 0..N-1; and every name is reachable from the output
C10_ResultMap ==
    pc = "done" =>
        /\ result.returned
        /\ error = "none"
        /\ DOMAIN result.adjoints = {funcs[i] : i \in 1..Len(funcs)}
        /\ \A i \in 1..Len(funcs), j \in 1..Len(funcs) : funcs[i] = funcs[j] => i = j
        /\ DOMAIN result.adjoints = ReachableNames
        /\ \A name \in DOMAIN result.adjoints :
            /\ result.adjoints[name] = visitor.adjoint_funcs[FuncKey(name, -1)]
            /\ result.adjoints[name] \in 1..Len(visitor.heap)
            /\ \A u \in 0..(num_update_definitions(prog.funcs[name]) - 1) :
                result.adjoints[name] # visitor.adjoint_funcs[FuncKey(name, u)]

\* the entry point has returned for test_update: blur has an update stage
C10_Witness ==
    /\ pc = "done"
    /\ prog = Update(1, 0, 2)
    /\ DOMAIN result.adjoints = {"blur", "clamped"}
    /\ FuncKey("blur", 0) \in DOMAIN visitor.adjoint_funcs

(***************************************************************************)
(* One BoundsInferencer object used for several inferences, as the tests   *)
(* of bounds inference use the class: inference(root), then                *)
(* get_func_bounds().                                                      *)
(***************************************************************************)
\* the number of inferences made on the object
MaxRuns == 2

\* the roots inference is run on: pipelines it finishes on, and pipelines it
\* stops on with an error, in the output or inside a function
InferencePipelines ==
    { Blur1D(0, 1, 0, MaxExtent, FALSE), Blur1D(-1, MaxOffset, MaxRMin, 1, TRUE),
      Blur2D(0, MaxExtent, MaxRMin, 1), Update(1, 0, MaxExtent),
      Update(MaxOffset, MaxRMin, 1), SharedAcross(0, MaxExtent),
      NoFunc(0, 1, FALSE),
      Index("r.x", Bin("Mul", Var("x"), Var("x")), 0, MaxExtent),
      Index("r.x", Var("y"), MaxRMin, 1),
      Index("x", Var("x"), 0, 1) }

InitInference ==
    /\ prog \in InferencePipelines
    /\ pc = "inference"
    /\ funcs = <<>>
    /\ bounds_inferencer = BoundsInferencer_new
    /\ visitor = ReverseAccumulationVisitor_new
    /\ expr_list = <<>>
    /\ it = 0
    /\ func_id = 0
    /\ update_id = -1
    /\ result = NoResult
    /\ error = "none"
    /\ runs = <<>>

\* bounds_inferencer.inference(root) on the root of prog; the caller then
\* picks the root of its next inference
RunInference ==
    /\ pc = "inference"
    /\ Len(runs) < MaxRuns
    /\ bounds_inferencer' = BI_inference(prog, prog.output, bounds_inferencer)
    /\ runs' = Append(runs, [p |-> prog,
                             func_bounds |-> bounds_inferencer'.func_bounds,
                             err |-> bounds_inferencer'.err])
    /\ prog' \in InferencePipelines
    /\ UNCHANGED <<pc, funcs, visitor, expr_list, it, func_id, update_id, result,
                   error>>

NextInference == RunInference

SpecInference == InitInference /\ [][NextInference]_vars

\* C6: whatever was inferred on the object before, a run on a root gives the
\* (function, stage) -> bounds map, and the error, that a run on a fresh object
\* gives, so two runs on the same root agree; after a run that finished the
\* object holds no context key, context variables, context bound or recursion
\* depth, and only bounds of functions of the root of that run
C6_InferenceRepeatable ==
    /\ \A i \in 1..Len(runs) :
        LET fresh == BI_inference(runs[i].p, runs[i].p.output, BoundsInferencer_new)
        IN  /\ runs[i].func_bounds = fresh.func_bounds
            /\ runs[i].err = fresh.err
    /\ \A i \in 1..Len(runs), j \in 1..Len(runs) :
        runs[i].p = runs[j].p => runs[i].func_bounds = runs[j].func_bounds
    /\ \A i \in 1..Len(runs) :
        runs[i].p = Update(1, 0, MaxExtent) =>
            runs[i].func_bounds =
                (FuncKey("blur", 0) :> <<[first |-> 0, second |-> MaxExtent - 1]>>)
                @@ (FuncKey("blur", -1) :> <<[first |-> 0, second |-> MaxExtent - 1]>>)
                @@ (FuncKey("clamped", -1) :> <<[first |-> 0, second |-> MaxExtent]>>)
    /\ Len(runs) > 0 /\ bounds_inferencer.err = "none" =>
        /\ bounds_inferencer.recursion_depth = 0
        /\ bounds_inferencer.current_func_key = FuncKey("", -1)
        /\ bounds_inferencer.current_args = <<>>
        /\ bounds_inferencer.current_bounds = <<>>
        /\ \A key \in DOMAIN bounds_inferencer.func_bounds :
            key[1] \in DOMAIN runs[Len(runs)].p.funcs

\* a run stopped inside the function blur, and the next run on the same object,
\* on another root, finished with bounds
C6_Witness ==
    /\ Len(runs) = 2
    /\ runs[1].err = "unsupported"
    /\ FuncKey("blur", -1) \in DOMAIN runs[1].func_bounds
    /\ runs[2].p = Update(1, 0, MaxExtent)
    /\ runs[2].err = "none"
    /\ bounds_inferencer.func_bounds = runs[2].func_bounds

(***************************************************************************)
(* Properties of the two sorters.                                          *)
(***************************************************************************)
\* the position of a function in the dependency list
Pos(name) == CHOOSE i \in 1..Len(funcs) : funcs[i] = name

\* <<caller, callee>> for every call of a function made in a stage of another
CallPairs ==
    {<<s.caller[1], prog.nodes[s.n].name>> :
        s \in {t \in HalideCallSites :
                  t.caller[1] # "" /\ t.caller[1] # prog.nodes[t.n].name}}

\* every caller comes before its callee in the list, or every caller after
SamePositionForEveryPair ==
    \/ \A pr \in CallPairs : Pos(pr[1]) < Pos(pr[2])
    \/ \A pr \in CallPairs : Pos(pr[2]) < Pos(pr[1])

\* C11: in the list of the dependency sorter a function comes only after
\* every function its stages call, and the relative position of a caller and
\* its callee is the same for every pair
C11_EmissionOrder ==
    pc # "start" =>
        /\ \A pr \in CallPairs : Pos(pr[2]) < Pos(pr[1])
        /\ SamePositionForEveryPair

\* the root of the expression the list in expr_list was made from
CurrentRoot ==
    IF func_id = 0 THEN prog.output
    ELSE StageValue(prog.funcs[funcs[func_id]], update_id)

\* the operands the expression sorter goes on to from the node n
Expanded(n) ==
    IF prog.nodes[n].t = "Call" /\ prog.nodes[n].ctype \in {"Halide", "Image"}
    THEN {}
    ELSE {prog.nodes[n].k[i] : i \in 1..Len(prog.nodes[n].k)}

RECURSIVE ReachExpanded(_)
\* the nodes reachable from n, the arguments of calls to Halide functions and
\* to images left out
ReachExpanded(n) == {n} \cup UNION {ReachExpanded(m) : m \in Expanded(n)}

\* C12: the list of the expression sorter ends with the root, has every node
\* after all of its operands, and has every node reachable from the root
\* exactly once; a call to a Halide function or to an image is a leaf, the
\* arguments of any other call are listed
C12_ExpressionOrder ==
    expr_list # <<>> =>
        /\ expr_list[Len(expr_list)] = CurrentRoot
        /\ \A i \in 1..Len(expr_list) :
            \A m \in Expanded(expr_list[i]) :
                \E j \in 1..(i - 1) : expr_list[j] = m
        /\ {expr_list[i] : i \in 1..Len(expr_list)} = ReachExpanded(CurrentRoot)
        /\ \A i \in 1..Len(expr_list), j \in 1..Len(expr_list) :
            expr_list[i] = expr_list[j] => i = j

\* a list with a call to an intrinsic and its argument, a node that has two
\* consumers, and a call to a Halide function whose argument is not listed
C12_Witness ==
    /\ expr_list # <<>>
    /\ \E i \in 1..Len(expr_list) :
        /\ prog.nodes[expr_list[i]].ctype = "PureExtern"
        /\ Expanded(expr_list[i]) # {}
    /\ \E i \in 1..Len(expr_list) :
        Cardinality({j \in 1..Len(expr_list) :
                        expr_list[i] \in Expanded(expr_list[j])}) >= 2
    /\ \E i \in 1..Len(expr_list) :
        /\ prog.nodes[expr_list[i]].ctype = "Halide"
        /\ prog.nodes[expr_list[i]].k # <<>>
        /\ \A j \in 1..Len(expr_list) :
            expr_list[j] # prog.nodes[expr_list[i]].k[1]

RECURSIVE TreeCalls(_)
\* the Halide functions called anywhere in the index expression e
TreeCalls(e) ==
    (IF e.t = "Call" /\ e.ctype = "Halide" THEN {e.name} ELSE {})
    \cup UNION {TreeCalls(e.k[i]) : i \in 1..Len(e.k)}

\* the Halide functions called in the bodies rooted at roots, the calls in the
\* arguments of calls included
CalledThroughCalls(roots) ==
    UNION {(IF prog.nodes[n].t = "Call" /\ prog.nodes[n].ctype = "Halide"
            THEN {prog.nodes[n].name} ELSE {})
           \cup UNION {TreeCalls(prog.nodes[n].args[i]) :
                          i \in 1..Len(prog.nodes[n].args)} :
           n \in UNION {Reach(r) : r \in roots}}

RECURSIVE ClosureThroughCalls(_)
ClosureThroughCalls(names) ==
    LET more == names \cup CalledThroughCalls(
                    UNION {{prog.funcs[f].stages[i] :
                               i \in 1..Len(prog.funcs[f].stages)} : f \in names})
    IN  IF more = names THEN names ELSE ClosureThroughCalls(more)

\* C13: the list of the dependency sorter names every function reachable from
\* the output through call nodes, and names no function twice
C13_EveryFunctionOnce ==
    pc # "start" =>
        /\ \A i \in 1..Len(funcs), j \in 1..Len(funcs) : funcs[i] = funcs[j] => i = j
        /\ {funcs[i] : i \in 1..Len(funcs)}
               = ClosureThroughCalls(CalledThroughCalls({prog.output}))

(***************************************************************************)
(* Properties of the order of scatters and reads.                          *)
(***************************************************************************)
\* the call sites whose scatter goes to the accumulator of the stage key
SitesTargeting(key) ==
    {s \in HalideCallSites : ReadStage(prog.nodes[s.n].name, s.caller) = key}

\* the stages the reverse pass has started: their accumulator has been wrapped
\* with the zero exterior and read as the seed of the stage's root
StartedStages ==
    {key \in DOMAIN visitor.adjoint_funcs :
        visitor.heap[visitor.adjoint_funcs[key]].base = "constant_exterior"}

\* C14: the accumulator a started stage was seeded from holds one scatter for
\* every call site that targets the stage, and nothing has been scattered
\* into the accumulator of the stage since it was wrapped and read
C14_ScattersBeforeRead ==
    pc \in {"walk", "done"} =>
        \A key \in StartedStages :
            LET wrapper == visitor.heap[visitor.adjoint_funcs[key]] IN
            /\ Len(visitor.heap[wrapper.inner].updates)
                   = Cardinality(SitesTargeting(key))
            /\ wrapper.updates = <<>>

\* the node types ReverseAccumulationVisitor has a visit method for
VisitedTypes ==
    {"Cast", "Variable", "Add", "Sub", "Mul", "Div", "Min", "Max", "Call", "Let"}

\* C15: whenever the walk comes to a node of a type the visitor has a visit
\* method for, the node has an accumulated adjoint, and the assertion at the
\* head of the visit methods never fails
C15_AdjointBeforeVisit ==
    /\ pc = "walk" /\ it >= 1 /\ prog.nodes[expr_list[it]].t \in VisitedTypes
           => expr_list[it] \in DOMAIN visitor.accumulated_adjoints
    /\ visitor.err # "assert accumulated_adjoints"
    /\ error # "assert accumulated_adjoints"

(***************************************************************************)
(* Properties of the bounds and keys of call sites.                        *)
(***************************************************************************)
\* the declared range of the reduction variable the index expression e is
RVarRange(e) ==
    LET rv == e.rd[CHOOSE i \in 1..Len(e.rd) : e.rd[i].var = e.name]
    IN  [first |-> rv.min, second |-> rv.min + rv.extent - 1]

\* C16: a stage with one call site whose argument i is a reduction variable
\* gets that variable's declared range [min, min + extent - 1] as the bound
\* of coordinate i, whatever the position of the variable in its domain
C16_OwnRangeOfRVar ==
    InferenceFinished =>
        \A s \in HalideCallSites :
            LET key == ReadStage(prog.nodes[s.n].name, s.caller)
                args == prog.nodes[s.n].args
            IN  Cardinality(SitesTargeting(key)) = 1 =>
                    \A i \in 1..Len(args) :
                        args[i].t = "Variable" /\ args[i].rd # <<>> =>
                            bounds_inferencer.func_bounds[key][i] = RVarRange(args[i])

RECURSIVE SumFrom(_, _, _)
\* fn[v] + ... + fn[last]
SumFrom(fn, v, last) == IF v > last THEN 0 ELSE fn[v] + SumFrom(fn, v + 1, last)

\* the sum of fn over the inferred range of coordinate i of the function name
SumOverBound(name, i, fn) ==
    LET b == visitor.func_bounds[FuncKey(name, -1)][i]
    IN  SumFrom(fn, b.min, b.min + b.extent - 1)

\* C17: for a call g(.., c, ..) with a constant at coordinate i the scatter
\* succeeds whatever the number of dimensions of the enclosing stage f, and
\* the adjoint of g at coordinate c is the sum of what f hands to the call
\* over the inferred range of f's coordinate i
C17_MissingCoordinateSummed ==
    prog.kind = "missing" =>
        /\ pc # "failed"
        /\ pc = "done" /\ prog.par.dims = 1 =>
            \A c \in Coordinates :
                Adjoint("g", <<c>>) =
                    IF c # prog.par.c THEN 0
                    ELSE SumOverBound("f", 1,
                             [v \in Coordinates |->
                                 Within("f", <<v>>)
                                 * ImageVal(prog.images.input,
                                            <<MaxOf(MinOf(v, 1), 0)>>)])
        /\ pc = "done" /\ prog.par.dims = 2 =>
            \A cx \in Coordinates, cy \in Coordinates :
                Adjoint("g", <<cx, cy>>) =
                    IF cy # prog.par.c THEN 0
                    ELSE SumOverBound("f", 2,
                             [v \in Coordinates |-> Within("f", <<cx, v>>)])

\* C18: for every call site the bounds inferencer and the visitor pick the
\* same stage of the callee: the stage before the current one when the call
\* is in a stage of the callee itself, the last stage otherwise, which is -1
\* for a callee without update stages; a call in the output goes to the last
\* stage, and the stage picked is one of -1..N-1
C18_TargetStage ==
    pc # "start" =>
        \A s \in HalideCallSites :
            LET name == prog.nodes[s.n].name
                last == num_update_definitions(prog.funcs[name]) - 1
                key == BI_targetKey(prog, name, s.caller)
            IN  /\ key = RV_targetKey(prog, name, s.caller)
                /\ key = IF s.caller[1] = name THEN FuncKey(name, s.caller[2] - 1)
                         ELSE FuncKey(name, last)
                /\ s.caller[1] = "" => key = FuncKey(name, last)
                /\ key[2] \in -1..last
                /\ InferenceFinished => key \in DOMAIN bounds_inferencer.func_bounds
                /\ pc = "done" => key \in DOMAIN visitor.adjoint_funcs

\* test_update has returned: blur has one update stage that reads blur, and
\* clamped has none, so that size() - 1 wrapped
C18_Witness ==
    /\ pc = "done"
    /\ prog.kind = "update"
    /\ \E s \in HalideCallSites :
        /\ s.caller = FuncKey("blur", 0)
        /\ prog.nodes[s.n].name = "blur"
        /\ RV_targetKey(prog, "blur", s.caller) = FuncKey("blur", -1)
    /\ \E s \in HalideCallSites :
        /\ s.caller = FuncKey("blur", 0)
        /\ prog.nodes[s.n].name = "clamped"
        /\ RV_targetKey(prog, "clamped", s.caller) = FuncKey("clamped", -1)
    /\ \E s \in HalideCallSites :
        /\ s.caller = FuncKey("", -1)
        /\ RV_targetKey(prog, "blur", s.caller) = FuncKey("blur", 0)

\* every stage of every function of the dependency list
ListedStages ==
    UNION {{FuncKey(funcs[i], u) :
               u \in -1..(num_update_definitions(prog.funcs[funcs[i]]) - 1)} :
           i \in 1..Len(funcs)}

\* C19: when inference has finished, every stage of every listed function has
\* an entry in func_bounds that a call site produced, with one pair for each
\* domain variable of the function; inference does not stop on a bound that
\* is not there, the assertion on func_bounds holds, and the zero exterior of
\* every started stage has one range for each domain variable
C19_StagesHaveBounds ==
    /\ bounds_inferencer.err # "undefined"
    /\ visitor.err # "assert func_bounds"
    /\ InferenceFinished =>
        \A key \in ListedStages :
            /\ key \in DOMAIN bounds_inferencer.func_bounds
            /\ Len(bounds_inferencer.func_bounds[key]) = Len(prog.funcs[key[1]].args)
            /\ SitesTargeting(key) # {}
    /\ \A key \in StartedStages :
        Len(visitor.heap[visitor.adjoint_funcs[key]].bounds)
            = Len(prog.funcs[key[1]].args)

====
